---------------------------- MODULE Spec2Model ----------------------------
(***************************************************************************)
(* Verification model of the avs-media-analyzer transport-stream demuxer   *)
(* (src/ts-analyzer.ts, class TSAnalyzer).                                 *)
(*                                                                         *)
(* A TS packet is a sequence of bytes: the 4-byte header followed by the   *)
(* payload.  The real packets are 188 bytes long; the modelled ones carry  *)
(* the same header and a short payload, which is all the demuxer reads.    *)
(* PSI sections and PES buffers are byte sequences parsed as the code      *)
(* parses them.                                                            *)
(***************************************************************************)
EXTENDS Integers, Sequences, FiniteSets, TLC

(***************************************************************************)
(* Bounds of the exploration.                                              *)
(***************************************************************************)
\* packets scanned in one parse of the full packet alphabet
MaxPackets == 4
\* handleFile hands parseTS at most the first 22000 packets of a file; under
\* SpecLong that read window is scaled to WindowPackets packets
WindowPackets == 6
\* packets of the longest file under SpecLong (longer than the read window)
MaxFilePackets == 8

(***************************************************************************)
(* Program constants.                                                      *)
(***************************************************************************)
SYNC_BYTE == 71
PAT_PID == 0
PAT_TABLE_ID == 0
PMT_TABLE_ID == 2
STREAM_AVS1 == 66
STREAM_AVS2 == 210
STREAM_AVS3 == 212
STREAM_AV3A == 213
REGISTRATION_TAG == 5
SEQ_START_CODE == 176
PIC_START_I == 179
PIC_START_PB == 182

(***************************************************************************)
(* Byte-sequence helpers.  JavaScript indexes from 0; At(s, i) is s[i].    *)
(***************************************************************************)
At(s, i) == s[i + 1]

\* Uint8Array.prototype.slice(from): the bytes from index `from` to the end
SliceFrom(s, from) ==
    IF from >= Len(s) THEN << >> ELSE SubSeq(s, from + 1, Len(s))

\* Uint8Array.prototype.slice(from, to)
Slice(s, from, to) ==
    LET hi == IF to > Len(s) THEN Len(s) ELSE to
    IN  IF from >= hi THEN << >> ELSE SubSeq(s, from + 1, hi)

\* the empty Map
EmptyMap == [x \in {} |-> 0]

\* Map.set(k, v)
MapSet(m, k, v) == [x \in (DOMAIN m) \cup {k} |-> IF x = k THEN v ELSE m[x]]

(***************************************************************************)
(* parseTSHeader: the fields of the 4-byte header the demuxer uses.        *)
(***************************************************************************)
ParseTSHeader(packet) ==
    LET afc == (At(packet, 3) \div 16) % 4
    IN  [ payloadUnitStartIndicator |-> (At(packet, 1) \div 64) % 2 = 1,
          pid |-> (At(packet, 1) % 32) * 256 + At(packet, 2),
          adaptationFieldControl |-> afc,
          hasPayload |-> afc % 2 = 1,
          payloadStart |-> IF (afc \div 2) % 2 = 1 /\ Len(packet) > 4
                           THEN 5 + At(packet, 4)
                           ELSE 4 ]

(***************************************************************************)
(* extractESFromPES: strip the PES header from a reassembled buffer.       *)
(***************************************************************************)
ExtractESFromPES(pesData) ==
    IF Len(pesData) < 6 THEN << >>
    ELSE IF At(pesData, 0) = 0 /\ At(pesData, 1) = 0 /\ At(pesData, 2) = 1
    THEN LET streamId == At(pesData, 3)
         IN  IF Len(pesData) < 9 THEN SliceFrom(pesData, 6)
             ELSE IF (streamId >= 224 /\ streamId <= 239)
                     \/ (streamId >= 192 /\ streamId <= 223)
                  THEN LET esDataStart == 9 + At(pesData, 8)
                       IN  IF esDataStart < Len(pesData)
                           THEN SliceFrom(pesData, esDataStart)
                           ELSE SliceFrom(pesData, 6)
                  ELSE SliceFrom(pesData, 6)
    ELSE pesData

\* isAVSStream
IsAVSStream(streamType) ==
    streamType \in {STREAM_AVS1, STREAM_AVS2, STREAM_AVS3, STREAM_AV3A}

(***************************************************************************)
(* analyzer.analyze(esData) as the demuxer sees it (the analyzer is of     *)
(* type `any`): it returns a header, returns null, or throws.  The scan    *)
(* is the start-code scan of the video analyzers: 00 00 01 B0 starts a     *)
(* sequence header, 00 00 01 B3/B6 (a picture header) ends the scan.  A    *)
(* header is identified by the byte after its start code (profile_id); a   *)
(* profile_id of 0 stands for a header whose parse fails (the scan goes    *)
(* on), and a profile_id of 255 for an input on which analyze() raises.     *)
(***************************************************************************)
\* analyze() returned null
NO_HEADER == 0
\* analyze() threw
THROW == -1

RECURSIVE AnalyzeScan(_, _, _)
AnalyzeScan(data, offset, sequenceHeader) ==
    IF ~(offset < Len(data) - 4) THEN sequenceHeader
    ELSE IF At(data, offset) = 0 /\ At(data, offset + 1) = 0 /\ At(data, offset + 2) = 1
    THEN LET startCode == At(data, offset + 3)
         IN  IF startCode = SEQ_START_CODE
             THEN LET profile == At(data, offset + 4)
                  IN  IF profile = 255 THEN THROW
                      ELSE AnalyzeScan(data, offset + 4,
                                       IF profile = 0 THEN sequenceHeader ELSE profile)
             ELSE IF startCode \in {PIC_START_I, PIC_START_PB} THEN sequenceHeader
             ELSE AnalyzeScan(data, offset + 4, sequenceHeader)
    ELSE AnalyzeScan(data, offset + 1, sequenceHeader)

Analyze(esData) == AnalyzeScan(esData, 0, NO_HEADER)

(***************************************************************************)
(* The TSAnalyzer object is the record `an` with the fields of the class.  *)
(*   programs            : programNumber -> [pmtPid, streams]              *)
(*   streams             : pid -> StreamInfo                               *)
(*   pesReassembly       : pid -> PESReassemblyState                       *)
(*   analyzers           : the stream types whose analyzer instance        *)
(*                         (avsAnalyzer, avs2Analyzer, avs3Analyzer,       *)
(*                         av3aAnalyzer) is set                            *)
(*   initializingPromises: the stream types whose import() is pending      *)
(* A StreamInfo object is shared by `streams` and by the stream map of     *)
(* the program whose PMT created it; `owner` names that program.           *)
(* currentPES is << >> for null and <<buffer>> for a buffer.               *)
(***************************************************************************)
NewStreamInfo(streamType, elemPid, programNumber) ==
    [ streamType |-> streamType, pid |-> elemPid, formatIdentifier |-> << >>,
      avsDetails |-> NO_HEADER, owner |-> programNumber ]

NewPESState == [ currentPES |-> << >>, isCollecting |-> FALSE, completedPES |-> << >> ]

\* getAnalyzer(streamType) is not null
HasAnalyzer(an, streamType) == streamType \in an.analyzers

(***************************************************************************)
(* initAnalyzerIfNeeded: start the dynamic import of the analyzer module.  *)
(* The analyzer field is set by the promise's callback, which runs only    *)
(* after the synchronous packet loop has returned to the event loop.       *)
(***************************************************************************)
InitAnalyzerIfNeeded(an, streamType) ==
    IF HasAnalyzer(an, streamType) THEN an
    ELSE IF streamType \in an.initializingPromises THEN an
    ELSE IF IsAVSStream(streamType)
         THEN [an EXCEPT !.initializingPromises = @ \cup {streamType}]
         ELSE an

(***************************************************************************)
(* parseDescriptors: the registration descriptor (tag 0x05) stores its     *)
(* fourCC; the other tags only set display fields that are not modelled.   *)
(***************************************************************************)
RECURSIVE ParseDescriptors(_, _, _)
ParseDescriptors(descriptorData, offset, streamInfo) ==
    IF ~(offset + 1 < Len(descriptorData)) THEN streamInfo
    ELSE LET descriptorTag == At(descriptorData, offset)
             descriptorLength == At(descriptorData, offset + 1)
         IN  IF offset + 2 + descriptorLength > Len(descriptorData) THEN streamInfo
             ELSE ParseDescriptors(descriptorData, offset + 2 + descriptorLength,
                      IF descriptorTag = REGISTRATION_TAG /\ descriptorLength >= 4
                      THEN [streamInfo EXCEPT !.formatIdentifier =
                               Slice(descriptorData, offset + 2, offset + 6)]
                      ELSE streamInfo)

(***************************************************************************)
(* parsePAT                                                                *)
(***************************************************************************)
RECURSIVE ParsePATLoop(_, _, _, _)
ParsePATLoop(an, data, offset, endOffset) ==
    IF ~(offset + 3 < endOffset) THEN an
    ELSE LET programNumber == At(data, offset) * 256 + At(data, offset + 1)
             pid == (At(data, offset + 2) % 32) * 256 + At(data, offset + 3)
             next == IF programNumber # 0 /\ programNumber \notin DOMAIN an.programs
                     THEN [an EXCEPT
                             !.programs = MapSet(@, programNumber,
                                             [pmtPid |-> pid, streams |-> EmptyMap]),
                             !.unparsedPmtPids = @ \cup {pid},
                             !.pmtPids = @ \cup {pid}]
                     ELSE an
         IN  ParsePATLoop(next, data, offset + 4, endOffset)

ParsePAT(an, data) ==
    IF Len(data) < 8 THEN an
    ELSE LET sectionLength == (At(data, 1) % 16) * 256 + At(data, 2)
             done == ParsePATLoop(an, data, 8, 3 + sectionLength - 4)
         IN  [done EXCEPT !.patParsed = TRUE]

(***************************************************************************)
(* parsePMT: returns the new object and whether a new PMT was parsed.      *)
(***************************************************************************)
RECURSIVE ParsePMTLoop(_, _, _, _, _)
ParsePMTLoop(an, data, programNumber, offset, endOffset) ==
    IF ~(offset + 4 < endOffset) THEN an
    ELSE LET streamType == At(data, offset)
             elemPid == (At(data, offset + 1) % 32) * 256 + At(data, offset + 2)
             esInfoLength == (At(data, offset + 3) % 16) * 256 + At(data, offset + 4)
             bare == NewStreamInfo(streamType, elemPid, programNumber)
             streamInfo ==
                 IF esInfoLength > 0 /\ offset + 5 + esInfoLength <= endOffset
                 THEN ParseDescriptors(
                          Slice(data, offset + 5, offset + 5 + esInfoLength), 0, bare)
                 ELSE bare
             marked ==
                 IF IsAVSStream(streamType)
                 THEN InitAnalyzerIfNeeded(
                          [an EXCEPT !.detectionPids = @ \cup {elemPid}], streamType)
                 ELSE an
             next == [marked EXCEPT
                        !.streams = MapSet(@, elemPid, streamInfo),
                        !.programs[programNumber].streams = MapSet(@, elemPid, streamInfo)]
         IN  ParsePMTLoop(next, data, programNumber, offset + 5 + esInfoLength, endOffset)

\* a variant without the test for a PMT that was already parsed
ParsePMT_NoDuplicateTest(an, data, pid) ==
    IF Len(data) < 12 THEN [an |-> an, parsed |-> FALSE]
    ELSE LET sectionLength == (At(data, 1) % 16) * 256 + At(data, 2)
             programNumber == At(data, 3) * 256 + At(data, 4)
             programInfoLength == (At(data, 10) % 16) * 256 + At(data, 11)
         IN  IF programNumber \notin DOMAIN an.programs
             THEN [an |-> an, parsed |-> FALSE]
             ELSE [an |-> ParsePMTLoop(an, data, programNumber,
                                       12 + programInfoLength, 3 + sectionLength - 4),
                   parsed |-> TRUE]

ParsePMT(an, data, pid) ==
    IF Len(data) < 12 THEN [an |-> an, parsed |-> FALSE]
    ELSE LET sectionLength == (At(data, 1) % 16) * 256 + At(data, 2)
             programNumber == At(data, 3) * 256 + At(data, 4)
             programInfoLength == (At(data, 10) % 16) * 256 + At(data, 11)
         IN  IF programNumber \in DOMAIN an.programs
                /\ DOMAIN an.programs[programNumber].streams # {}
             THEN [an |-> an, parsed |-> FALSE]
             ELSE IF programNumber \notin DOMAIN an.programs
             THEN [an |-> an, parsed |-> FALSE]
             ELSE [an |-> ParsePMTLoop(an, data, programNumber,
                                       12 + programInfoLength, 3 + sectionLength - 4),
                   parsed |-> TRUE]

(***************************************************************************)
(* parsePSI                                                                *)
(***************************************************************************)
ParsePSI(an, pid, payload) ==
    IF Len(payload) < 1 THEN an
    ELSE LET pointerField == At(payload, 0)
             offset == 1 + pointerField
         IN  IF offset >= Len(payload) THEN an
             ELSE IF offset + 3 >= Len(payload) THEN an
             ELSE LET tableId == At(payload, offset)
                      sectionLength ==
                          (At(payload, offset + 1) % 16) * 256 + At(payload, offset + 2)
                  IN  IF offset + 3 + sectionLength > Len(payload) THEN an
                      ELSE IF tableId = PAT_TABLE_ID
                      THEN ParsePAT([an EXCEPT !.patCount = @ + 1],
                                    SliceFrom(payload, offset))
                      ELSE IF tableId = PMT_TABLE_ID
                      THEN LET r == ParsePMT([an EXCEPT !.pmtCount = @ + 1],
                                             SliceFrom(payload, offset), pid)
                           IN  IF r.parsed
                               THEN LET d == [r.an EXCEPT !.unparsedPmtPids = @ \ {pid}]
                                    IN  IF d.patParsed /\ d.unparsedPmtPids = {}
                                           /\ ~d.allPmtsParsed
                                        THEN [d EXCEPT !.allPmtsParsed = TRUE]
                                        ELSE d
                               ELSE r.an
                      ELSE an

(***************************************************************************)
(* In-band detection.  The operators that may run the codec parser return  *)
(* the new object together with a record of what the run did:              *)
(*   ran     : performAVSDetection was entered                             *)
(*   list    : the completedPES list it iterated                           *)
(*   offered : the buffers handed to analyzer.analyze, in call order       *)
(***************************************************************************)
NoRun(an) == [an |-> an, ran |-> FALSE, list |-> << >>, offered |-> << >>]

\* a variant of the loop without the break: a later success replaces an earlier one
RECURSIVE DetectLoop_NoBreak(_, _)
DetectLoop_NoBreak(completedPES, i) ==
    IF i > Len(completedPES)
    THEN [header |-> NO_HEADER, threw |-> FALSE, offered |-> << >>]
    ELSE LET esData == ExtractESFromPES(completedPES[i])
         IN  IF Len(esData) > 0
             THEN LET header == Analyze(esData)
                  IN  IF header = THROW
                      THEN [header |-> NO_HEADER, threw |-> TRUE,
                            offered |-> <<completedPES[i]>>]
                      ELSE LET rest == DetectLoop_NoBreak(completedPES, i + 1)
                           IN  [ header |-> IF rest.header # NO_HEADER
                                            THEN rest.header ELSE header,
                                 threw |-> rest.threw,
                                 offered |-> <<completedPES[i]>> \o rest.offered ]
             ELSE DetectLoop_NoBreak(completedPES, i + 1)

\* the loop of performAVSDetection over completedPES, from index i (1-based)
RECURSIVE DetectLoop(_, _)
DetectLoop(completedPES, i) ==
    IF i > Len(completedPES)
    THEN [header |-> NO_HEADER, threw |-> FALSE, offered |-> << >>]
    ELSE LET esData == ExtractESFromPES(completedPES[i])
         IN  IF Len(esData) > 0
             THEN LET header == Analyze(esData)
                  IN  IF header = THROW
                      THEN [header |-> NO_HEADER, threw |-> TRUE,
                            offered |-> <<completedPES[i]>>]
                      ELSE IF header # NO_HEADER
                      THEN [header |-> header, threw |-> FALSE,
                            offered |-> <<completedPES[i]>>]
                      ELSE LET rest == DetectLoop(completedPES, i + 1)
                           IN  [rest EXCEPT !.offered = <<completedPES[i]>> \o @]
             ELSE DetectLoop(completedPES, i + 1)

\* a variant whose failure path gives up on the whole detection: when no buffer
\* of the PID yields a header, the results stored so far are dropped
PerformAVSDetection_GivesUp(an, pid) ==
    LET state == an.pesReassembly[pid]
        r == DetectLoop(state.completedPES, 1)
        found == IF r.header # NO_HEADER
                 THEN [an EXCEPT !.detectionResults = MapSet(@, pid, r.header),
                                 !.detectionPids = @ \ {pid}]
                 ELSE [an EXCEPT !.detectionResults = EmptyMap]
    IN  [ an |-> [found EXCEPT !.pesReassembly[pid].completedPES = << >>],
          ran |-> TRUE, list |-> state.completedPES, offered |-> r.offered ]

\* performAVSDetection: try / catch / finally around the loop
PerformAVSDetection(an, pid) ==
    LET state == an.pesReassembly[pid]
        r == DetectLoop(state.completedPES, 1)
        found == IF r.header # NO_HEADER
                 THEN [an EXCEPT !.detectionResults = MapSet(@, pid, r.header),
                                 !.detectionPids = @ \ {pid}]
                 ELSE an
    IN  [ an |-> [found EXCEPT !.pesReassembly[pid].completedPES = << >>],
          ran |-> TRUE, list |-> state.completedPES, offered |-> r.offered ]

\* detectAllCompletedPES
DetectAllCompletedPES(an, pid) ==
    IF pid \notin DOMAIN an.pesReassembly
       \/ Len(an.pesReassembly[pid].completedPES) = 0
    THEN NoRun(an)
    ELSE IF pid \notin DOMAIN an.streams \/ ~IsAVSStream(an.streams[pid].streamType)
    THEN NoRun(an)
    ELSE IF ~HasAnalyzer(an, an.streams[pid].streamType)
    THEN NoRun(an)
    ELSE PerformAVSDetection(an, pid)

\* a variant that puts the finished buffer at the front of the completed list
PushPESAndDetect_Unshift(an, pid) ==
    IF pid \notin DOMAIN an.pesReassembly
       \/ an.pesReassembly[pid].currentPES = << >>
       \/ ~an.pesReassembly[pid].isCollecting
    THEN NoRun(an)
    ELSE LET pushed == [an EXCEPT !.pesReassembly[pid].completedPES =
                                      <<an.pesReassembly[pid].currentPES[1]>> \o @]
         IN  IF pid \in pushed.detectionPids /\ pid \notin DOMAIN pushed.detectionResults
             THEN DetectAllCompletedPES(pushed, pid)
             ELSE NoRun(pushed)

\* pushPESAndDetect
PushPESAndDetect(an, pid) ==
    IF pid \notin DOMAIN an.pesReassembly
       \/ an.pesReassembly[pid].currentPES = << >>
       \/ ~an.pesReassembly[pid].isCollecting
    THEN NoRun(an)
    ELSE LET pushed == [an EXCEPT !.pesReassembly[pid].completedPES =
                                      Append(@, an.pesReassembly[pid].currentPES[1])]
         IN  IF pid \in pushed.detectionPids /\ pid \notin DOMAIN pushed.detectionResults
             THEN DetectAllCompletedPES(pushed, pid)
             ELSE NoRun(pushed)

\* the PIDs handlePESReassembly never reassembles
IsSystemPid(an, pid) ==
    pid \in {0, 1, 16, 17, 8191} \/ pid \in an.pmtPids

\* a variant whose PUSI=1 branch queues the old buffer and keeps its bytes in
\* front of the new payload
HandlePESReassembly_KeepsOld(an, pid, payload, payloadUnitStartIndicator) ==
    IF IsSystemPid(an, pid) THEN NoRun(an)
    ELSE IF an.allPmtsParsed /\ pid \notin an.detectionPids THEN NoRun(an)
    ELSE LET withState == IF pid \in DOMAIN an.pesReassembly THEN an
                          ELSE [an EXCEPT !.pesReassembly = MapSet(@, pid, NewPESState)]
             state == withState.pesReassembly[pid]
         IN  IF payloadUnitStartIndicator
             THEN LET r == IF state.currentPES # << >> /\ state.isCollecting
                           THEN PushPESAndDetect(withState, pid)
                           ELSE NoRun(withState)
                  IN  [r EXCEPT !.an.pesReassembly[pid].currentPES =
                                    IF state.currentPES # << >> /\ state.isCollecting
                                    THEN <<state.currentPES[1] \o payload>>
                                    ELSE <<payload>>,
                                !.an.pesReassembly[pid].isCollecting = TRUE]
             ELSE IF state.isCollecting /\ state.currentPES # << >>
                  THEN NoRun([withState EXCEPT
                                !.pesReassembly[pid].currentPES = <<@[1] \o payload>>])
                  ELSE NoRun(withState)

\* a variant whose PUSI=0 branch puts the payload in front of the buffer
HandlePESReassembly_Prepends(an, pid, payload, payloadUnitStartIndicator) ==
    IF IsSystemPid(an, pid) THEN NoRun(an)
    ELSE IF an.allPmtsParsed /\ pid \notin an.detectionPids THEN NoRun(an)
    ELSE LET withState == IF pid \in DOMAIN an.pesReassembly THEN an
                          ELSE [an EXCEPT !.pesReassembly = MapSet(@, pid, NewPESState)]
             state == withState.pesReassembly[pid]
         IN  IF payloadUnitStartIndicator
             THEN LET r == IF state.currentPES # << >> /\ state.isCollecting
                           THEN PushPESAndDetect(withState, pid)
                           ELSE NoRun(withState)
                  IN  [r EXCEPT !.an.pesReassembly[pid].currentPES = <<payload>>,
                                !.an.pesReassembly[pid].isCollecting = TRUE]
             ELSE IF state.isCollecting /\ state.currentPES # << >>
                  THEN NoRun([withState EXCEPT
                                !.pesReassembly[pid].currentPES = <<payload \o @[1]>>])
                  ELSE NoRun(withState)

\* handlePESReassembly
HandlePESReassembly(an, pid, payload, payloadUnitStartIndicator) ==
    IF IsSystemPid(an, pid) THEN NoRun(an)
    ELSE IF an.allPmtsParsed /\ pid \notin an.detectionPids THEN NoRun(an)
    ELSE LET withState == IF pid \in DOMAIN an.pesReassembly THEN an
                          ELSE [an EXCEPT !.pesReassembly = MapSet(@, pid, NewPESState)]
             state == withState.pesReassembly[pid]
         IN  IF payloadUnitStartIndicator
             THEN LET r == IF state.currentPES # << >> /\ state.isCollecting
                           THEN PushPESAndDetect(withState, pid)
                           ELSE NoRun(withState)
                  IN  [r EXCEPT !.an.pesReassembly[pid].currentPES = <<payload>>,
                                !.an.pesReassembly[pid].isCollecting = TRUE]
             ELSE IF state.isCollecting /\ state.currentPES # << >>
                  THEN NoRun([withState EXCEPT
                                !.pesReassembly[pid].currentPES = <<@[1] \o payload>>])
                  ELSE NoRun(withState)

\* parsePacket
ParsePacket(an, packet) ==
    LET header == ParseTSHeader(packet)
    IN  IF Len(packet) < 4 \/ ~header.hasPayload THEN NoRun(an)
        ELSE LET payload == SliceFrom(packet, header.payloadStart)
                 r == HandlePESReassembly(an, header.pid, payload,
                                          header.payloadUnitStartIndicator)
             IN  IF header.payloadUnitStartIndicator /\ Len(payload) > 0
                 THEN [r EXCEPT !.an = ParsePSI(r.an, header.pid, payload)]
                 ELSE r

(***************************************************************************)
(* finalizePESReassembly: every PID's state in turn.  What is done for one *)
(* PID reads and writes that PID's entries only, so the Map's iteration    *)
(* order does not matter; the PIDs are taken in ascending order.  The      *)
(* result carries, per PID, the record of the detection run.               *)
(***************************************************************************)
\* a variant that drops the buffer still being collected instead of queueing it
FinalizeOne_Drop(an, pid) ==
    LET state == an.pesReassembly[pid]
    IN  IF state.currentPES # << >> /\ state.isCollecting
        THEN NoRun([an EXCEPT !.pesReassembly[pid].currentPES = << >>,
                              !.pesReassembly[pid].isCollecting = FALSE])
        ELSE NoRun(an)

FinalizeOne(an, pid) ==
    LET state == an.pesReassembly[pid]
    IN  IF state.currentPES # << >> /\ state.isCollecting
        THEN LET r == PushPESAndDetect(an, pid)
             IN  [r EXCEPT !.an.pesReassembly[pid].currentPES = << >>,
                           !.an.pesReassembly[pid].isCollecting = FALSE]
        ELSE NoRun(an)

RECURSIVE FinalizeLoop(_, _, _)
FinalizeLoop(an, pids, runs) ==
    IF pids = {} THEN [an |-> an, runs |-> runs]
    ELSE LET pid == CHOOSE p \in pids : \A q \in pids : p <= q
             r == FinalizeOne(an, pid)
         IN  FinalizeLoop(r.an, pids \ {pid},
                          MapSet(runs, pid,
                                 [ran |-> r.ran, list |-> r.list, offered |-> r.offered]))

FinalizePESReassembly(an) == FinalizeLoop(an, DOMAIN an.pesReassembly, EmptyMap)

(***************************************************************************)
(* applyAVSDetectionResults: store every result in its StreamInfo, the     *)
(* object shared by `streams` and by the owning program's stream map.      *)
(***************************************************************************)
ApplyAVSDetectionResults(an) ==
    LET applies(pid) == pid \in DOMAIN an.detectionResults
                        /\ pid \in DOMAIN an.streams
                        /\ IsAVSStream(an.streams[pid].streamType)
    IN  [an EXCEPT
           !.streams = [pid \in DOMAIN an.streams |->
                          IF applies(pid)
                          THEN [an.streams[pid] EXCEPT
                                   !.avsDetails = an.detectionResults[pid]]
                          ELSE an.streams[pid]],
           !.programs = [n \in DOMAIN an.programs |->
                           [ pmtPid |-> an.programs[n].pmtPid,
                             streams |-> [pid \in DOMAIN an.programs[n].streams |->
                                 IF applies(pid) /\ an.streams[pid].owner = n
                                 THEN [an.programs[n].streams[pid] EXCEPT
                                          !.avsDetails = an.detectionResults[pid]]
                                 ELSE an.programs[n].streams[pid]] ]]]

(***************************************************************************)
(* The inputs: TS packets built from the wire format the code reads.       *)
(***************************************************************************)
\* the PID of the PMT of program 1, of its first video stream, of its second
PMT_PID == 1 * 256
VIDEO_PID == PMT_PID + 1
VIDEO2_PID == PMT_PID - 1

\* a TS packet with a payload only (adaptation_field_control = 01)
TSPacket(pid, pusi, payload) ==
    <<SYNC_BYTE, (IF pusi THEN 64 ELSE 0) + (pid \div 256), pid % 256, 16>> \o payload

\* a TS packet with an adaptation field of one stuffing byte before the payload
TSPacketAF(pid, pusi, payload) ==
    <<SYNC_BYTE, (IF pusi THEN 64 ELSE 0) + (pid \div 256), pid % 256, 48, 1, 0>>
        \o payload

\* a PSI payload: pointer_field 0, the section header, the body, a 4-byte CRC
PSIPayload(tableId, idHi, idLo, body) ==
    LET sectionLength == 5 + Len(body) + 4
    IN  <<0, tableId, 176 + (sectionLength \div 256), sectionLength % 256,
          idHi, idLo, 193, 0, 0>> \o body \o <<0, 0, 0, 0>>

\* a PAT entry: program_number, PMT PID
PATEntry(programNumber, pid) ==
    <<programNumber \div 256, programNumber % 256, 224 + (pid \div 256), pid % 256>>

\* a PMT elementary entry: stream_type, elementary PID, descriptors
PMTEntry(streamType, elemPid, descriptors) ==
    <<streamType, 224 + (elemPid \div 256), elemPid % 256,
      240 + (Len(descriptors) \div 256), Len(descriptors) % 256>> \o descriptors

\* a PMT body: PCR PID, program_info_length 0, the entries
PMTBody(pcrPid, entries) ==
    <<224 + (pcrPid \div 256), pcrPid % 256, 240, 0>> \o entries

\* registration descriptor 'AVSV'
RegistrationAVSV == <<REGISTRATION_TAG, 4, 65, 86, 83, 86>>

\* a PES header for video stream_id 0xE0 with PES_header_data_length 0
PESHeader == <<0, 0, 1, 224, 0, 0, 128, 0, 0>>

\* a sequence header start code followed by profile_id
SeqHeader(profile) == <<0, 0, 1, SEQ_START_CODE, profile>>

PktPAT == TSPacket(PAT_PID, TRUE, PSIPayload(PAT_TABLE_ID, 0, 1, PATEntry(1, PMT_PID)))

\* program 1: AVS3 video on VIDEO_PID (registered AVSV) and AVS2 video on VIDEO2_PID
PktPMT2 ==
    TSPacket(PMT_PID, TRUE,
             PSIPayload(PMT_TABLE_ID, 0, 1,
                        PMTBody(VIDEO_PID,
                                PMTEntry(STREAM_AVS3, VIDEO_PID, RegistrationAVSV)
                                \o PMTEntry(STREAM_AVS2, VIDEO2_PID, << >>))))

\* program 1: AVS3 video on VIDEO_PID only
PktPMT1 ==
    TSPacket(PMT_PID, TRUE,
             PSIPayload(PMT_TABLE_ID, 0, 1,
                        PMTBody(VIDEO_PID, PMTEntry(STREAM_AVS3, VIDEO_PID, << >>))))

\* a whole PES on VIDEO_PID carrying sequence header 32
PktSeq == TSPacket(VIDEO_PID, TRUE, PESHeader \o SeqHeader(32))

\* the start of a PES on VIDEO_PID: the header and the first bytes of a start code
PktStart == TSPacket(VIDEO_PID, TRUE, PESHeader \o <<0, 0, 1>>)

\* a continuation on VIDEO_PID completing sequence header 48
PktCont == TSPacketAF(VIDEO_PID, FALSE, <<SEQ_START_CODE, 48>>)

\* a whole PES on VIDEO_PID on which the analyzer throws
PktThrow == TSPacket(VIDEO_PID, TRUE, PESHeader \o SeqHeader(255))

\* a whole PES on VIDEO2_PID carrying sequence header 33
PktSeq2 == TSPacket(VIDEO2_PID, TRUE, PESHeader \o SeqHeader(33))

\* a whole PES on VIDEO_PID carrying sequence header 48: the bytes of PktStart
\* and PktCont in one packet
PktSeqB == TSPacket(VIDEO_PID, TRUE, PESHeader \o SeqHeader(48))

Packets ==
    {PktPAT, PktPMT2, PktPMT1, PktSeq, PktSeqB, PktStart, PktCont, PktThrow, PktSeq2}

(***************************************************************************)
(* State.                                                                  *)
(*   an               the TSAnalyzer object                                *)
(*   pc               where the object's user is: "idle" (constructed or   *)
(*                    reset), "scan" (in the packet loop of parseTS),      *)
(*                    "wait" (after the loop, at waitForAnalyzers),        *)
(*                    "done" (parseTS returned)                            *)
(*   processedPackets the loop's counter                                   *)
(* History of the current parse, read by the properties only:              *)
(*   sent        pid -> the packets with a payload seen on that PID, in    *)
(*               file order: [pusi, payload, under], `under` telling       *)
(*               whether the PID was under reassembly when the packet came *)
(*   offered     pid -> the buffers handed to the codec parser, in order   *)
(*   lastRuns    pid -> the detection run of the last step, for the PIDs   *)
(*               the last step handled                                     *)
(*   last        the packet the last step parsed (<< >> if none)           *)
(*   exitReason  why the packet loop ended                                 *)
(* Beside the demuxer:                                                     *)
(*   call        the last call of one of the parsers and readers that work *)
(*               on a buffer alone: [op, input, output]                    *)
(***************************************************************************)
VARIABLES an, pc, processedPackets, sent, offered, lastRuns, last, exitReason,
          call, mp4

vars == <<an, pc, processedPackets, sent, offered, lastRuns, last, exitReason,
          call, mp4>>

\* the variables of the demuxer, and the ones beside it
demuxVars == <<an, pc, processedPackets, sent, offered, lastRuns, last, exitReason>>
besideDemux == <<call, mp4>>

\* no call yet
NoCall == [op |-> "none", input |-> << >>, output |-> << >>]

\* a new ISOMBFFAnalyzer, no file handled yet: the fields of the object (tracks
\* as given by MP4Box, sampleDataMap), the locals of analyzeFile that its
\* callbacks share (pendingTracks, receivedSamples, whether the promise is
\* resolved), and the deliveries to onSamples so far (kept for the properties)
NewISOMBFFAnalyzer ==
    [ phase |-> "idle", tracks |-> << >>, sampleDataMap |-> EmptyMap,
      pendingTracks |-> EmptyMap, receivedSamples |-> {}, resolved |-> FALSE,
      deliveries |-> << >>,
      \* the read loop of analyzeFile: the file (its size in chunks, the chunk
      \* that completes its moov box or 0, the tracks that have a sample), the
      \* chunks appended, whether readNextChunk is still scheduled, whether
      \* MP4Box owes the onReady call, whether flush() was called and whether
      \* reject() was called; `version` tells the two analyzeFile of the source
      version |-> 1, size |-> 0, moovChunk |-> 0, sampled |-> {},
      position |-> 0, reading |-> FALSE, readyDue |-> FALSE,
      flushed |-> FALSE, rejected |-> FALSE ]

\* the object after construction (the field initialisers of the class)
NewAnalyzer ==
    [ programs |-> EmptyMap, streams |-> EmptyMap, pesReassembly |-> EmptyMap,
      detectionPids |-> {}, detectionResults |-> EmptyMap,
      patCount |-> 0, pmtCount |-> 0,
      patParsed |-> FALSE, unparsedPmtPids |-> {}, allPmtsParsed |-> FALSE,
      pmtPids |-> {}, analyzers |-> {}, initializingPromises |-> {} ]

Init ==
    /\ an = NewAnalyzer
    /\ pc = "idle"
    /\ processedPackets = 0
    /\ sent = EmptyMap
    /\ offered = EmptyMap
    /\ lastRuns = EmptyMap
    /\ last = << >>
    /\ exitReason = "none"
    /\ call = NoCall
    /\ mp4 = NewISOMBFFAnalyzer

\* the spec's condition for a PID to be reassembled (section 4.7)
UnderReassembly(pid) ==
    /\ pid \notin {0, 1, 16, 17, 8191}
    /\ pid \notin an.pmtPids
    /\ (pid \in an.detectionPids \/ ~an.allPmtsParsed)

\* the history after a packet on `pid` was parsed
Logged(log, pid, entry) ==
    MapSet(log, pid, IF pid \in DOMAIN log THEN Append(log[pid], entry) ELSE <<entry>>)

Extended(log, pid, buffers) ==
    IF buffers = << >> THEN log
    ELSE MapSet(log, pid, IF pid \in DOMAIN log THEN log[pid] \o buffers ELSE buffers)

(***************************************************************************)
(* parseTS, up to the packet loop: the per-parse state is cleared.         *)
(* patParsed, unparsedPmtPids, allPmtsParsed, pmtPids, the analyzers and   *)
(* the pending imports are not touched here.                               *)
(***************************************************************************)
StartParse ==
    /\ pc \in {"idle", "done"}
    /\ an' = [an EXCEPT !.programs = EmptyMap, !.streams = EmptyMap,
                        !.pesReassembly = EmptyMap, !.detectionPids = {},
                        !.detectionResults = EmptyMap,
                        !.patCount = 0, !.pmtCount = 0]
    /\ pc' = "scan"
    /\ processedPackets' = 0
    /\ sent' = EmptyMap
    /\ offered' = EmptyMap
    /\ lastRuns' = EmptyMap
    /\ last' = << >>
    /\ exitReason' = "none"
    /\ UNCHANGED besideDemux

\* a variant that leaves the loop only once a PMT section has been seen twice
EarlyExit_Mutant(a) == a.allPmtsParsed /\ a.detectionPids = {} /\ a.pmtCount > 1

\* the early-exit test of the packet loop
EarlyExit(a) == a.allPmtsParsed /\ a.detectionPids = {}

(***************************************************************************)
(* One iteration of the packet loop of parseTS on a packet whose sync byte *)
(* is right: parsePacket, the counter, the early exit.  (The fast-scan     *)
(* budget of 20000 packets lies beyond the packets explored.)              *)
(***************************************************************************)
ScanPacket(packet, limit) ==
    /\ pc = "scan"
    /\ processedPackets < limit
    /\ At(packet, 0) = SYNC_BYTE
    /\ LET header == ParseTSHeader(packet)
           r == ParsePacket(an, packet)
       IN  /\ an' = r.an
           /\ sent' = IF header.hasPayload
                      THEN Logged(sent, header.pid,
                                  [ pusi |-> header.payloadUnitStartIndicator,
                                    payload |-> SliceFrom(packet, header.payloadStart),
                                    under |-> UnderReassembly(header.pid) ])
                      ELSE sent
           /\ offered' = Extended(offered, header.pid, r.offered)
           /\ lastRuns' = MapSet(EmptyMap, header.pid,
                                 [ran |-> r.ran, list |-> r.list, offered |-> r.offered])
           /\ IF EarlyExit(r.an)
              THEN pc' = "wait" /\ exitReason' = "early"
              ELSE pc' = "scan" /\ exitReason' = exitReason
    /\ processedPackets' = processedPackets + 1
    /\ last' = packet
    /\ UNCHANGED besideDemux

\* the loop ends because the input is exhausted
EndOfInput ==
    /\ pc = "scan"
    /\ pc' = "wait"
    /\ exitReason' = "eof"
    /\ last' = << >>
    /\ lastRuns' = EmptyMap
    /\ UNCHANGED <<an, processedPackets, sent, offered>>
    /\ UNCHANGED besideDemux

(***************************************************************************)
(* A pending import() settles while parseTS awaits waitForAnalyzers: on    *)
(* success the analyzer field is set, on failure the error is logged; the  *)
(* promise leaves initializingPromises either way.                         *)
(***************************************************************************)
ImportSettled(streamType, loaded) ==
    /\ pc = "wait"
    /\ streamType \in an.initializingPromises
    /\ an' = [an EXCEPT !.initializingPromises = @ \ {streamType},
                        !.analyzers = IF loaded THEN @ \cup {streamType} ELSE @]
    /\ last' = << >>
    /\ lastRuns' = EmptyMap
    /\ UNCHANGED <<pc, processedPackets, sent, offered, exitReason>>
    /\ UNCHANGED besideDemux

(***************************************************************************)
(* parseTS after waitForAnalyzers: finalizePESReassembly, then             *)
(* applyAVSDetectionResults.                                               *)
(***************************************************************************)
Finish ==
    /\ pc = "wait"
    /\ an.initializingPromises = {}
    /\ LET f == FinalizePESReassembly(an)
       IN  /\ an' = ApplyAVSDetectionResults(f.an)
           /\ lastRuns' = f.runs
           /\ offered' = [pid \in DOMAIN offered \cup
                                  {p \in DOMAIN f.runs : f.runs[p].offered # << >>} |->
                            (IF pid \in DOMAIN offered THEN offered[pid] ELSE << >>)
                            \o (IF pid \in DOMAIN f.runs THEN f.runs[pid].offered
                                ELSE << >>)]
    /\ pc' = "done"
    /\ last' = << >>
    /\ UNCHANGED <<processedPackets, sent, exitReason>>
    /\ UNCHANGED besideDemux

\* resetAnalyzer (the re-upload button)
ResetAnalyzer ==
    /\ pc = "done"
    /\ an' = [NewAnalyzer EXCEPT !.analyzers = an.analyzers]
    /\ pc' = "idle"
    /\ processedPackets' = 0
    /\ sent' = EmptyMap
    /\ offered' = EmptyMap
    /\ lastRuns' = EmptyMap
    /\ last' = << >>
    /\ exitReason' = "none"
    /\ UNCHANGED besideDemux

Scan == \E packet \in Packets : ScanPacket(packet, MaxPackets)

(***************************************************************************)
(* handleFile: a file larger than the read window is read up to the window *)
(* and parsed as a partial parse, any other file is read whole.  The       *)
(* result is the number of packets of the buffer parseTS gets from a file  *)
(* of n packets.                                                           *)
(***************************************************************************)
\* a variant that reads every file whole
BufferPackets_WholeFile(n) == n

BufferPackets(n) == IF n > WindowPackets THEN WindowPackets ELSE n

(***************************************************************************)
(* The packet loop over the buffer of a file of up to MaxFilePackets       *)
(* packets, with packets of one program and one PID: the loop has a next   *)
(* packet to take as long as the buffer of some such file has one.  (The   *)
(* fast-scan break of a partial parse only ends the loop earlier.)         *)
(***************************************************************************)
LongPackets == {PktPAT, PktPMT1, PktSeq, PktStart}

LongScan == \E n \in 0..MaxFilePackets, packet \in LongPackets :
                ScanPacket(packet, BufferPackets(n))

Settle == \E streamType \in an.initializingPromises, loaded \in BOOLEAN :
              ImportSettled(streamType, loaded)

Next ==
    \/ StartParse
    \/ Scan
    \/ EndOfInput
    \/ Settle
    \/ Finish
    \/ ResetAnalyzer

Spec == Init /\ [][Next]_vars

NextLong ==
    \/ StartParse
    \/ LongScan
    \/ EndOfInput
    \/ Settle
    \/ Finish
    \/ ResetAnalyzer

SpecLong == Init /\ [][NextLong]_vars

(***************************************************************************)
(* Definitions used to state the properties.                               *)
(***************************************************************************)
\* the step parses a TS packet (an iteration of the packet loop)
PacketStep == pc = "scan" /\ last' # << >>

\* the header and payload of the packet the step parses
StepHeader == ParseTSHeader(last')
StepPayload == SliceFrom(last', StepHeader.payloadStart)

\* the step is the end of parseTS: finalizePESReassembly and applyAVSDetectionResults
FinishStep == pc = "wait" /\ pc' = "done"

\* the PES buffer / the completed list of a PID in the object `a`
Collecting(a, pid) ==
    pid \in DOMAIN a.pesReassembly
    /\ a.pesReassembly[pid].isCollecting
    /\ a.pesReassembly[pid].currentPES # << >>

Completed(a, pid) ==
    IF pid \in DOMAIN a.pesReassembly THEN a.pesReassembly[pid].completedPES ELSE << >>

\* the codec parser succeeds on a PES buffer
Succeeds(pes) ==
    /\ Len(ExtractESFromPES(pes)) > 0
    /\ Analyze(ExtractESFromPES(pes)) \notin {NO_HEADER, THROW}

\* the codec parser throws on a PES buffer
Throws(pes) ==
    /\ Len(ExtractESFromPES(pes)) > 0
    /\ Analyze(ExtractESFromPES(pes)) = THROW

(***************************************************************************)
(* The PES buffers of a PID as section 4.7 of the spec defines them, from  *)
(* the packets seen on the PID: a PUSI=1 packet starts a buffer with its   *)
(* payload, a PUSI=0 packet appends its payload to the buffer being        *)
(* collected, and packets that came while the PID was not under            *)
(* reassembly are left out.                                                *)
(***************************************************************************)
RECURSIVE SegmentsOf(_)
SegmentsOf(log) ==
    IF log = << >> THEN << >>
    ELSE LET before == SegmentsOf(SubSeq(log, 1, Len(log) - 1))
             e == log[Len(log)]
         IN  IF ~e.under THEN before
             ELSE IF e.pusi THEN Append(before, e.payload)
             ELSE IF before = << >> THEN before
             ELSE [before EXCEPT ![Len(before)] = @ \o e.payload]

SentOn(pid) == IF pid \in DOMAIN sent THEN sent[pid] ELSE << >>

OfferedOn(pid) == IF pid \in DOMAIN offered THEN offered[pid] ELSE << >>

C2_DetectedWhenFirstPESFinalized ==
    [][ ( /\ PacketStep
          /\ StepHeader.hasPayload
          /\ StepHeader.payloadUnitStartIndicator
          /\ an.allPmtsParsed
          /\ Cardinality(DOMAIN an.programs) = 1
          /\ an.detectionPids = {StepHeader.pid}
          /\ Collecting(an, StepHeader.pid)
          /\ Completed(an, StepHeader.pid) = << >>
          /\ Len(SegmentsOf(SentOn(StepHeader.pid))) = 1
          /\ Succeeds(an.pesReassembly[StepHeader.pid].currentPES[1]) )
        => ( /\ StepHeader.pid \in DOMAIN an'.detectionResults
             /\ pc' = "wait" )
      ]_vars

\* the index of the first buffer of `list` on which the codec parser succeeds (0: none)
FirstSuccess(list) ==
    IF \E i \in 1..Len(list) : Succeeds(list[i])
    THEN CHOOSE i \in 1..Len(list) :
             Succeeds(list[i]) /\ \A j \in 1..(i - 1) : ~Succeeds(list[j])
    ELSE 0

\* `a` is `b` with some elements left out, the order kept
RECURSIVE Embeds(_, _)
Embeds(a, b) ==
    IF a = << >> THEN TRUE
    ELSE IF b = << >> THEN FALSE
    ELSE IF Head(a) = Head(b) THEN Embeds(Tail(a), Tail(b))
    ELSE Embeds(a, Tail(b))

(***************************************************************************)
(* C3: the stored result of a PID is the header the codec parser returned  *)
(* for the first buffer, in the order the PID's completed PES were offered *)
(* to it, on which it succeeded; the step that stores the result removes   *)
(* the PID from the detection set; and the stored result stays as it is    *)
(* for the rest of the parse.                                              *)
(***************************************************************************)
C3_FirstSuccessStoredOnce ==
    [][ /\ \A pid \in DOMAIN an'.detectionResults :
              /\ FirstSuccess(IF pid \in DOMAIN offered' THEN offered'[pid] ELSE << >>) > 0
              /\ an'.detectionResults[pid] =
                     Analyze(ExtractESFromPES(
                         offered'[pid][FirstSuccess(offered'[pid])]))
        /\ \A pid \in DOMAIN an'.detectionResults :
              (pc \in {"scan", "wait"} /\ pid \notin DOMAIN an.detectionResults)
                  => pid \notin an'.detectionPids
        /\ \A pid \in DOMAIN an.detectionResults :
              pc \in {"scan", "wait"}
                  => /\ pid \in DOMAIN an'.detectionResults
                     /\ an'.detectionResults[pid] = an.detectionResults[pid]
      ]_vars

\* the parse ended with the header of the first of two PES of a PID that carry
\* different sequence headers, the second never offered
C3_Witness ==
    /\ pc = "done"
    /\ \E pid \in DOMAIN an.detectionResults :
          LET segments == SegmentsOf(SentOn(pid))
          IN  /\ Len(segments) = 2
              /\ Succeeds(segments[1])
              /\ Succeeds(segments[2])
              /\ Analyze(ExtractESFromPES(segments[1]))
                     # Analyze(ExtractESFromPES(segments[2]))
              /\ an.detectionResults[pid] = Analyze(ExtractESFromPES(segments[1]))
              /\ OfferedOn(pid) = <<segments[1]>>

(***************************************************************************)
(* C4: the buffers of a PID are offered to the codec parser in the file    *)
(* order of their first packets: what was offered so far is, in order, a   *)
(* selection of the PID's PES buffers as they follow one another in the    *)
(* file.                                                                   *)
(***************************************************************************)
C4_OfferedInFileOrder ==
    \A pid \in DOMAIN offered : Embeds(offered[pid], SegmentsOf(SentOn(pid)))

\* two different buffers of one PID have been offered
C4_Witness ==
    \E pid \in DOMAIN offered :
        /\ Len(offered[pid]) >= 2
        /\ offered[pid][1] # offered[pid][2]

\* the codec analyzer of the PID's stream is loaded
AnalyzerReady(a, pid) ==
    /\ pid \in DOMAIN a.streams
    /\ IsAVSStream(a.streams[pid].streamType)
    /\ HasAnalyzer(a, a.streams[pid].streamType)

\* the buffers of `list` that carry elementary-stream bytes
WithES(list) == SelectSeq(list, LAMBDA pes : Len(ExtractESFromPES(pes)) > 0)

\* the buffers of `list` that carry elementary-stream bytes, in order, up to and
\* including the first one on which the codec parser succeeds or throws
OfferPrefix(list) ==
    LET es == WithES(list)
        stops == {i \in 1..Len(es) : Succeeds(es[i]) \/ Throws(es[i])}
    IN  IF stops = {} THEN es
        ELSE SubSeq(es, 1, CHOOSE i \in stops : \A j \in stops : i <= j)

\* the detection run of the step on the PID
RunOn(pid) ==
    IF pid \in DOMAIN lastRuns' THEN lastRuns'[pid]
    ELSE [ran |-> FALSE, list |-> << >>, offered |-> << >>]

C6_PusiQueuesOnceAndRestarts ==
    [][ ( /\ PacketStep
          /\ StepHeader.hasPayload
          /\ StepHeader.payloadUnitStartIndicator
          /\ UnderReassembly(StepHeader.pid) )
        => LET pid == StepHeader.pid
               before == Completed(an, pid)
               full == IF Collecting(an, pid)
                       THEN Append(before, an.pesReassembly[pid].currentPES[1])
                       ELSE before
           IN  /\ pid \in DOMAIN an'.pesReassembly
               /\ an'.pesReassembly[pid].currentPES = <<StepPayload>>
               /\ an'.pesReassembly[pid].isCollecting
               /\ \/ ~RunOn(pid).ran /\ Completed(an', pid) = full
                  \/ /\ RunOn(pid).ran
                     /\ RunOn(pid).list = full
                     /\ Completed(an', pid) = << >>
      ]_vars

\* a PUSI=1 packet has just queued a buffer behind an earlier one
C6_Witness ==
    /\ pc = "scan"
    /\ last # << >>
    /\ ParseTSHeader(last).payloadUnitStartIndicator
    /\ ParseTSHeader(last).pid = VIDEO_PID
    /\ Len(Completed(an, VIDEO_PID)) = 2
    /\ Collecting(an, VIDEO_PID)

(***************************************************************************)
(* C7: the buffer being collected on a PID is the concatenation, in packet *)
(* order, of the payloads from the last PUSI=1 packet on, and the          *)
(* completed list holds, in order, the latest finished runs of payloads    *)
(* from one PUSI=1 packet up to the next: a buffer depends on the bytes,   *)
(* not on how they were split over packets.                                *)
(***************************************************************************)
C7_BufferIsConcatenation ==
    \A pid \in DOMAIN an.pesReassembly :
        LET segments == SegmentsOf(SentOn(pid))
            finished == IF Collecting(an, pid)
                        THEN SubSeq(segments, 1, Len(segments) - 1)
                        ELSE segments
            kept == Completed(an, pid)
        IN  /\ Collecting(an, pid) =>
                  /\ segments # << >>
                  /\ an.pesReassembly[pid].currentPES = <<segments[Len(segments)]>>
            /\ Len(kept) <= Len(finished)
            /\ kept = SubSeq(finished, Len(finished) - Len(kept) + 1, Len(finished))

\* a buffer made of the payloads of three packets is being collected behind
\* a finished one
C7_Witness ==
    /\ Collecting(an, VIDEO_PID)
    /\ Len(SentOn(VIDEO_PID)) >= 4
    /\ ~SentOn(VIDEO_PID)[Len(SentOn(VIDEO_PID))].pusi
    /\ ~SentOn(VIDEO_PID)[Len(SentOn(VIDEO_PID)) - 1].pusi
    /\ an.pesReassembly[VIDEO_PID].currentPES[1] =
           SentOn(VIDEO_PID)[Len(SentOn(VIDEO_PID)) - 2].payload
           \o SentOn(VIDEO_PID)[Len(SentOn(VIDEO_PID)) - 1].payload
           \o SentOn(VIDEO_PID)[Len(SentOn(VIDEO_PID))].payload
    /\ Len(Completed(an, VIDEO_PID)) = 1

\* the program number of the PMT section a packet carries to parsePMT (-1 if the
\* packet carries none)
PmtSectionProgram(packet) ==
    LET header == ParseTSHeader(packet)
        payload == SliceFrom(packet, header.payloadStart)
        offset == IF Len(payload) >= 1 THEN 1 + At(payload, 0) ELSE 0
    IN  IF /\ header.hasPayload
           /\ header.payloadUnitStartIndicator
           /\ Len(payload) >= 1
           /\ offset + 3 < Len(payload)
           /\ At(payload, offset) = PMT_TABLE_ID
           /\ offset + 3 + (At(payload, offset + 1) % 16) * 256 + At(payload, offset + 2)
                  <= Len(payload)
           /\ Len(payload) - offset >= 12
        THEN At(payload, offset + 3) * 256 + At(payload, offset + 4)
        ELSE -1

(***************************************************************************)
(* C8: a PMT section for a program whose stream map is already non-empty   *)
(* leaves the programs with their streams and stored descriptors, the      *)
(* global stream map and the detection set exactly as they were.           *)
(***************************************************************************)
C8_RepeatedPmtChangesNothing ==
    [][ ( /\ PacketStep
          /\ PmtSectionProgram(last') \in DOMAIN an.programs
          /\ DOMAIN an.programs[PmtSectionProgram(last')].streams # {} )
        => ( /\ an'.programs = an.programs
             /\ an'.streams = an.streams
             /\ an'.detectionPids = an.detectionPids )
      ]_vars

\* a PMT section listing two streams was processed after a PMT section of the
\* same program that listed one, and one stream is known
C8_Witness ==
    /\ pc = "scan"
    /\ last = PktPMT2
    /\ an.pmtCount = 2
    /\ DOMAIN an.streams = {VIDEO_PID}
    /\ an.detectionPids = {VIDEO_PID}

\* the detection state of a PID in the object `a`: its result, its membership of
\* the detection set, its reassembly buffers
DetectionStateOf(a, pid) ==
    [ result |-> IF pid \in DOMAIN a.detectionResults
                 THEN <<a.detectionResults[pid]>> ELSE << >>,
      pending |-> pid \in a.detectionPids,
      buffers |-> IF pid \in DOMAIN a.pesReassembly
                  THEN <<a.pesReassembly[pid]>> ELSE << >> ]

\* the step ran the codec parser on the PID's buffers and got no header: every
\* offer returned null, or one threw
FailedOn(pid) ==
    /\ RunOn(pid).ran
    /\ FirstSuccess(RunOn(pid).offered) = 0

\* the PIDs the object knows of
KnownPids(a) ==
    DOMAIN a.pesReassembly \cup DOMAIN a.detectionResults \cup a.detectionPids
    \cup DOMAIN a.streams

(***************************************************************************)
(* C9: when the codec parser fails on one PID (it returns no header or     *)
(* throws), the result, the detection-set membership and the reassembly    *)
(* buffers of every other PID are what they would be without that          *)
(* failure: unchanged by a packet, and at the end of the scan what the     *)
(* other PID's own finalization makes of them; and at the end of the parse *)
(* every stored result is reported in its stream's details, in the global  *)
(* stream map and in the owning program.                                   *)
(***************************************************************************)
C9_FailureIsolated ==
    [][ /\ PacketStep =>
             \A pid \in KnownPids(an') :
                 FailedOn(pid) =>
                     \A other \in KnownPids(an) \cup KnownPids(an') :
                         other # pid =>
                             DetectionStateOf(an', other) = DetectionStateOf(an, other)
        /\ FinishStep =>
             /\ \A pid \in DOMAIN an.pesReassembly :
                    FailedOn(pid) =>
                        \A other \in KnownPids(an) \cup KnownPids(an') :
                            other # pid =>
                                DetectionStateOf(an', other) =
                                    IF other \in DOMAIN an.pesReassembly
                                    THEN DetectionStateOf(FinalizeOne(an, other).an, other)
                                    ELSE DetectionStateOf(an, other)
             /\ \A pid \in DOMAIN an'.detectionResults :
                    (pid \in DOMAIN an'.streams
                     /\ IsAVSStream(an'.streams[pid].streamType))
                        => /\ an'.streams[pid].avsDetails = an'.detectionResults[pid]
                           /\ an'.programs[an'.streams[pid].owner].streams[pid].avsDetails
                                  = an'.detectionResults[pid]
      ]_vars

\* the parse ended with the codec parser having failed on one PID at the end of
\* the scan, after the header of another PID was stored, and that header is
\* reported
C9_Witness ==
    /\ pc = "done"
    /\ VIDEO_PID \in DOMAIN lastRuns
    /\ lastRuns[VIDEO_PID].ran
    /\ lastRuns[VIDEO_PID].offered # << >>
    /\ FirstSuccess(lastRuns[VIDEO_PID].offered) = 0
    /\ VIDEO_PID \in an.detectionPids
    /\ VIDEO2_PID \in DOMAIN lastRuns
    /\ lastRuns[VIDEO2_PID].ran
    /\ VIDEO2_PID \in DOMAIN an.detectionResults
    /\ VIDEO2_PID \in DOMAIN an.streams
    /\ an.streams[VIDEO2_PID].avsDetails = an.detectionResults[VIDEO2_PID]
    /\ an.programs[1].streams[VIDEO2_PID].avsDetails # NO_HEADER

(***************************************************************************)
(* C10: for every PID the number of completed PES buffers retained stays   *)
(* below a fixed bound, the number of packets of the read window plus one, *)
(* whatever the number of packets of the file.                             *)
(***************************************************************************)
C10_RetainedWithinWindow ==
    \A pid \in DOMAIN an.pesReassembly :
        Len(an.pesReassembly[pid].completedPES) < WindowPackets + 1

\* on a PID waiting for detection, every PES finished since the PMT is retained
\* while the scan fills the read window
C10_Witness ==
    /\ pc = "scan"
    /\ processedPackets = WindowPackets
    /\ VIDEO_PID \in an.detectionPids
    /\ Len(Completed(an, VIDEO_PID)) = WindowPackets - 3
    /\ Collecting(an, VIDEO_PID)

(***************************************************************************)
(* 32-bit integers of JavaScript.  The operators <<, & and | work on the   *)
(* two's complement 32-bit form of their operands and give a signed 32-bit *)
(* result; + and - work on numbers, which hold every integer met here      *)
(* exactly.                                                                *)
(***************************************************************************)
\* the smallest 32-bit integer, -2^31
MinInt32 == (-2147483647) - 1

\* 2^k for k in 0 .. 30
Pow2(k) ==
    <<
      1, 2, 4, 8, 16, 32, 64, 128, 256, 512, 1024, 2048, 4096, 8192,
      16384, 32768, 65536, 131072, 262144, 524288, 1048576, 2097152,
      4194304, 8388608, 16777216, 33554432, 67108864, 134217728,
      268435456, 536870912, 1073741824
    >>[k + 1]

\* bit i (0 = least significant) of the 32-bit form of x
Bit32(x, i) ==
    IF i = 31 THEN (IF x < 0 THEN 1 ELSE 0)
    ELSE ((IF x < 0 THEN x - MinInt32 ELSE x) \div Pow2(i)) % 2

\* the signed integer whose 32-bit form has the bits b[0] .. b[31]
Bits8(b, i) ==
    (b[i] + 2 * b[i + 1] + 4 * b[i + 2] + 8 * b[i + 3])
    + 16 * (b[i + 4] + 2 * b[i + 5] + 4 * b[i + 6] + 8 * b[i + 7])

FromBits32(b) ==
    (Bits8(b, 0) + 256 * Bits8(b, 8))
    + (65536 * Bits8(b, 16)
       + 16777216 * ((b[24] + 2 * b[25] + 4 * b[26] + 8 * b[27])
                     + 16 * (b[28] + 2 * b[29] + 4 * b[30])))
    + (IF b[31] = 1 THEN MinInt32 ELSE 0)

\* x << k
Shl32(x, k) == FromBits32([i \in 0..31 |-> IF i >= k THEN Bit32(x, i - k) ELSE 0])

\* x & y
And32(x, y) == FromBits32([i \in 0..31 |-> Bit32(x, i) * Bit32(y, i)])

\* x | y
Or32(x, y) ==
    FromBits32([i \in 0..31 |-> IF Bit32(x, i) = 1 \/ Bit32(y, i) = 1 THEN 1 ELSE 0])

(***************************************************************************)
(* A number that may lie outside the 32-bit range is held as the pair      *)
(* [hi, lo] that stands for hi * 65536 + lo, with lo in 0 .. 65535.        *)
(***************************************************************************)
NumOf(x) == [hi |-> x \div 65536, lo |-> x % 65536]

NumAdd(a, b) ==
    [hi |-> a.hi + b.hi + (a.lo + b.lo) \div 65536, lo |-> (a.lo + b.lo) % 65536]

\* whether the number is negative, and its value when it is a 32-bit integer
NumNegative(a) == a.hi < 0
NumInt(a) == a.hi * 65536 + a.lo

(***************************************************************************)
(* BitReader (src/utils.ts).  A reader is [buffer, bytePosition,           *)
(* bitPosition]; a read returns the reader after it, the value, and        *)
(* whether it threw.                                                       *)
(***************************************************************************)
BitReader(buffer, startOffset) ==
    [buffer |-> buffer, bytePosition |-> startOffset, bitPosition |-> 0]

Returned(reader, v) == [r |-> reader, v |-> v, threw |-> FALSE]
Thrown(reader) == [r |-> reader, v |-> 0, threw |-> TRUE]

\* the while loop of readBits
RECURSIVE ReadBitsLoop(_, _, _)
ReadBitsLoop(reader, result, bitsToRead) ==
    IF ~(bitsToRead > 0) THEN Returned(reader, result)
    ELSE IF reader.bytePosition >= Len(reader.buffer) THEN Thrown(reader)
    ELSE LET bitsLeftInByte == 8 - reader.bitPosition
             bitsToReadInThisStep ==
                 IF bitsToRead < bitsLeftInByte THEN bitsToRead ELSE bitsLeftInByte
             mask == Shl32(1, bitsToReadInThisStep) - 1
             byte == At(reader.buffer, reader.bytePosition)
             shift == bitsLeftInByte - bitsToReadInThisStep
             value == And32(byte \div Pow2(shift), mask)
             bitPosition == reader.bitPosition + bitsToReadInThisStep
         IN  ReadBitsLoop(
                 IF bitPosition = 8
                 THEN [reader EXCEPT !.bitPosition = 0, !.bytePosition = @ + 1]
                 ELSE [reader EXCEPT !.bitPosition = bitPosition],
                 Or32(Shl32(result, bitsToReadInThisStep), value),
                 bitsToRead - bitsToReadInThisStep)

ReadBits(reader, n) ==
    IF n > 32 THEN Thrown(reader)
    ELSE IF n = 0 THEN Returned(reader, 0)
    ELSE ReadBitsLoop(reader, 0, n)

ReadBit(reader) ==
    IF reader.bytePosition >= Len(reader.buffer) THEN Thrown(reader)
    ELSE LET byte == At(reader.buffer, reader.bytePosition)
             bit == (byte \div Pow2(7 - reader.bitPosition)) % 2
         IN  Returned(IF reader.bitPosition + 1 = 8
                      THEN [reader EXCEPT !.bitPosition = 0, !.bytePosition = @ + 1]
                      ELSE [reader EXCEPT !.bitPosition = @ + 1],
                      bit)

SkipBits(reader, n) ==
    LET totalBitsOffset == reader.bytePosition * 8 + reader.bitPosition + n
    IN  [reader EXCEPT !.bytePosition = totalBitsOffset \div 8,
                       !.bitPosition = totalBitsOffset % 8]

CheckMarkerBit(reader) ==
    LET b == ReadBit(reader)
    IN  IF b.threw THEN b
        ELSE IF b.v # 1 THEN Thrown(b.r)
        ELSE b

\* the loop of readUE that counts the leading zero bits
RECURSIVE ReadUELoop(_, _)
ReadUELoop(reader, leadingZeroBits) ==
    LET b == ReadBit(reader)
    IN  IF b.threw THEN b
        ELSE IF b.v = 0
        THEN IF leadingZeroBits + 1 > 31 THEN Thrown(b.r)
             ELSE ReadUELoop(b.r, leadingZeroBits + 1)
        ELSE Returned(b.r, leadingZeroBits)

\* F applied to a value that is computed first, and once (a local constant of
\* the code, or the parse so far)
Then(v, F(_)) == CASE v = v -> F(v)

\* readUE: the value is a number, held as a pair
ReadUE(reader) ==
    Then(ReadUELoop(reader, 0), LAMBDA z :
        IF z.threw THEN z
        ELSE Then(ReadBits(z.r, z.v), LAMBDA codeNum :
                 IF codeNum.threw THEN codeNum
                 ELSE Returned(codeNum.r,
                               NumAdd(NumAdd(NumOf(Shl32(1, z.v)), NumOf(-1)),
                                      NumOf(codeNum.v)))))

(***************************************************************************)
(* Parsing with a BitReader.  A parse in progress is [r, ok, f]: the       *)
(* reader, whether no read has thrown so far, and the syntax elements read *)
(* so far (name -> value).  Once a read has thrown, the rest of the        *)
(* function is skipped: the exception leaves it.  Values of readUE are     *)
(* kept as number pairs.                                                   *)
(***************************************************************************)
Parsing(reader) == [r |-> reader, ok |-> TRUE, f |-> EmptyMap]

\* the element read earlier under that name (0 if it was not read)
Get(s, name) == IF name \in DOMAIN s.f THEN s.f[name] ELSE 0

\* const name = reader.readBits(n)
U(s, name, n) ==
    IF ~s.ok THEN s
    ELSE Then(ReadBits(s.r, n), LAMBDA read :
             IF read.threw THEN [s EXCEPT !.ok = FALSE, !.r = read.r]
             ELSE [s EXCEPT !.r = read.r, !.f = MapSet(@, name, read.v)])

\* const name = reader.readUE()
UE(s, name) ==
    IF ~s.ok THEN s
    ELSE Then(ReadUE(s.r), LAMBDA read :
             IF read.threw THEN [s EXCEPT !.ok = FALSE, !.r = read.r]
             ELSE [s EXCEPT !.r = read.r, !.f = MapSet(@, name, read.v)])

\* reader.checkMarkerBit()
Marker(s) ==
    IF ~s.ok THEN s
    ELSE Then(CheckMarkerBit(s.r), LAMBDA read :
             IF read.threw THEN [s EXCEPT !.ok = FALSE, !.r = read.r]
             ELSE [s EXCEPT !.r = read.r])

\* try { reader.checkMarkerBit() } catch (error) { console.log(...) }
MarkerCaught(s) ==
    IF ~s.ok THEN s
    ELSE [s EXCEPT !.r = CheckMarkerBit(s.r).r]

\* reader.skipBits(n)
Skip(s, n) == IF ~s.ok THEN s ELSE [s EXCEPT !.r = SkipBits(s.r, n)]

\* the length of Array.from({length: n}, ...) for a number pair n
ArrayLength(n) == IF NumNegative(n) THEN 0 ELSE NumInt(n)

(***************************************************************************)
(* AVS1Analyzer.parseSequenceHeader (src/unnamed/part_004).                *)
(***************************************************************************)
AVS1_ParseSequenceHeader(reader) ==
    LET s0  == Skip(Parsing(reader), 32)
        s1  == U(s0, "profile_id", 8)
        s2  == U(s1, "level_id", 8)
        s3  == U(s2, "progressive", 1)
        s4  == U(s3, "horizontal_size", 14)
        s5  == U(s4, "vertical_size", 14)
        s6  == U(s5, "chroma_format", 2)
        s7  == U(s6, "sample_precision", 3)
        s8  == U(s7, "aspect_ratio_info", 4)
        s9  == U(s8, "frame_rate_code", 4)
        s10 == U(s9, "bit_rate_lower", 18)
        s11 == Marker(s10)
        s12 == U(s11, "bit_rate_upper", 12)
        s13 == U(s12, "low_delay", 1)
        s14 == Marker(s13)
        s15 == U(s14, "bbv_buffer_size", 18)
    IN  Then(s15, LAMBDA s :
            IF Get(s, "profile_id") = 36
            THEN \* profile_id === 0x24
                 LET t1 == U(s, "background_picture_disable", 1)
                     t2 == U(t1, "core_picture_disable", 1)
                     t3 == Then(t2, LAMBDA t :
                               IF Get(t, "core_picture_disable") = 0
                               THEN U(t, "core_picture_buffer_size", 4) ELSE t)
                     t4 == U(t3, "slice_set_disable", 1)
                     t5 == Marker(t4)
                     t6 == U(t5, "scene_model", 4)
                 IN  Then(t6, LAMBDA t :
                         IF Get(t, "core_picture_disable") = 0
                         THEN Skip(t, 3) ELSE Skip(t, 5))
            ELSE Skip(s, 3))

(***************************************************************************)
(* AVS1Analyzer.parseSequenceDisplayExtension: a failed parse is caught    *)
(* inside and null is returned.                                            *)
(***************************************************************************)
AVS1_ParseSequenceDisplayExtension(reader) ==
    LET s0 == Skip(Skip(Parsing(reader), 32), 4)
        s1 == U(s0, "video_format", 3)
        s2 == U(s1, "sample_range", 1)
        s3 == U(s2, "colour_description_flag", 1)
        s4 == Then(s3, LAMBDA s :
                  IF Get(s, "colour_description_flag") = 1
                  THEN U(U(U(s, "colour_primaries", 8), "transfer_characteristics", 8),
                         "matrix_coefficients", 8)
                  ELSE s)
        s5 == U(s4, "display_horizontal_size", 14)
        s6 == Marker(s5)
        s7 == U(s6, "display_vertical_size", 14)
    IN  U(s7, "stereo_packing_mode", 2)

(***************************************************************************)
(* analyze() of the video analyzers: the start-code scan.  A captured      *)
(* header or extension is [present, at, f]: `at` is the offset of its      *)
(* start code (kept for the properties), f its syntax elements; null is    *)
(* Null.  The returned record is kept as its two or three sources.         *)
(***************************************************************************)
Null == [present |-> FALSE, at |-> 0, f |-> EmptyMap]

Captured(offset, s) == [present |-> TRUE, at |-> offset, f |-> s.f]

\* a variant that keeps what a failed parse had read
CapturedOr_Partial(offset, s, old) == Captured(offset, s)

\* the capture of a parse that succeeded, `old` after one that failed
CapturedOr(offset, s, old) == IF s.ok THEN Captured(offset, s) ELSE old

\* whether the bytes at offset are 00 00 01
IsStartCodePrefix(data, offset) ==
    At(data, offset) = 0 /\ At(data, offset + 1) = 0 /\ At(data, offset + 2) = 1

EXTENSION_START_CODE == 181
SEQUENCE_DISPLAY_EXTENSION_ID == 2
HDR_DYNAMIC_METADATA_EXTENSION_ID == 5

\* the state of the scan before its first round
ScanStart == [offset |-> 0, done |-> FALSE, sequenceHeader |-> Null,
              displayExtension |-> Null, hdrDynamicMetadataExtension |-> Null]

\* one round of the while loop of analyze(): `done` is the loop's end, by its
\* condition or by the break at a picture start code
AVS1_AnalyzeStep(data, st) ==
    LET offset == st.offset
        startCode == At(data, offset + 3)
    IN  IF ~(offset < Len(data) - 4) THEN [st EXCEPT !.done = TRUE]
        ELSE IF ~IsStartCodePrefix(data, offset) THEN [st EXCEPT !.offset = offset + 1]
        ELSE IF startCode = SEQ_START_CODE
        THEN Then(AVS1_ParseSequenceHeader(BitReader(data, offset)), LAMBDA s :
                 [st EXCEPT !.offset = offset + 4,
                            !.sequenceHeader = IF s.ok THEN Captured(offset, s) ELSE @])
        ELSE IF startCode = EXTENSION_START_CODE
        THEN IF offset + 4 < Len(data)
                /\ At(data, offset + 4) \div 16 = SEQUENCE_DISPLAY_EXTENSION_ID
             THEN Then(AVS1_ParseSequenceDisplayExtension(BitReader(data, offset)),
                       LAMBDA s :
                           [st EXCEPT !.offset = offset + 4,
                                      !.displayExtension =
                                          IF s.ok THEN Captured(offset, s) ELSE Null])
             ELSE [st EXCEPT !.offset = offset + 4]
        ELSE IF startCode \in {PIC_START_I, PIC_START_PB} THEN [st EXCEPT !.done = TRUE]
        ELSE [st EXCEPT !.offset = offset + 4]

\* rounds of the while loop, at most n of them (the first half of them, then
\* the rest); the loop has ended when st.done
RECURSIVE AVS1_AnalyzeLoop(_, _, _)
AVS1_AnalyzeLoop(data, st, n) ==
    IF st.done \/ n = 0 THEN st
    ELSE IF n = 1 THEN AVS1_AnalyzeStep(data, st)
    ELSE AVS1_AnalyzeLoop(data, AVS1_AnalyzeLoop(data, st, n \div 2), n - n \div 2)

\* the record analyze() returns, or Null
AVS1_Analyze(data) ==
    Then(AVS1_AnalyzeLoop(data, ScanStart, Len(data) + 1), LAMBDA end :
        IF end.sequenceHeader.present
        THEN [present |-> TRUE, sequenceHeader |-> end.sequenceHeader,
              displayExtension |-> end.displayExtension]
        ELSE [present |-> FALSE, sequenceHeader |-> Null, displayExtension |-> Null])

(***************************************************************************)
(* AVS3Analyzer (src/unnamed/part_006): the sequence header and the        *)
(* structures inside it.                                                   *)
(***************************************************************************)
\* a local variable set without a read
Let(s, name, v) == IF ~s.ok THEN s ELSE [s EXCEPT !.f = MapSet(@, name, v)]

\* delta > 0 for a number pair
NumPositive(a) == a.hi > 0 \/ (a.hi = 0 /\ a.lo > 0)

\* count calls of reader.readUE() (the cells of the weight quantization
\* matrices, the disparity bounds read with readSE): the first half of the
\* calls, then the rest; nothing more is read once a call has thrown
RECURSIVE ReadUEs(_, _, _)
ReadUEs(s, name, count) ==
    IF ~s.ok \/ ~(count > 0) THEN s
    ELSE IF count = 1 THEN UE(s, name)
    ELSE ReadUEs(ReadUEs(s, name, count \div 2), name, count - count \div 2)

\* parseWeightQuantMatrix: a 4x4 and an 8x8 matrix of ue(v)
ParseWeightQuantMatrix(s) == ReadUEs(s, "weight_quant_coeff", 4 * 4 + 8 * 8)

\* one round of the for loop of parseReferencePictureListSet
AVS3_ReferencePicture(s) ==
    LET a == IF Get(s, "reference_to_library_enable_flag") = 1
             THEN U(s, "library_index_flag", 1)
             ELSE Let(s, "library_index_flag", 0)
    IN  IF Get(a, "library_index_flag") = 1
        THEN UE(a, "referenced_library_picture_index")
        ELSE LET d == UE(a, "delta")
             IN  IF d.ok /\ NumPositive(d.f["delta"]) THEN U(d, "sign", 1) ELSE d

\* count rounds of the loop (the first half of them, then the rest)
RECURSIVE AVS3_ReferencePictures(_, _)
AVS3_ReferencePictures(s, count) ==
    IF ~s.ok \/ ~(count > 0) THEN s
    ELSE IF count = 1 THEN AVS3_ReferencePicture(s)
    ELSE AVS3_ReferencePictures(AVS3_ReferencePictures(s, count \div 2),
                                count - count \div 2)

AVS3_ParseReferencePictureListSet(s) ==
    LET a == IF Get(s, "library_picture_enable_flag") = 1
             THEN U(s, "reference_to_library_enable_flag", 1)
             ELSE Let(s, "reference_to_library_enable_flag", 0)
        b == UE(a, "num_of_ref_pic")
    IN  IF b.ok THEN AVS3_ReferencePictures(b, ArrayLength(b.f["num_of_ref_pic"]))
        ELSE b

\* Array.from({length}, () => this.parseReferencePictureListSet(reader,
\* library_picture_enable_flag)): length calls
RECURSIVE AVS3_ReferencePictureListSets(_, _)
AVS3_ReferencePictureListSets(s, length) ==
    IF ~s.ok \/ ~(length > 0) THEN s
    ELSE IF length = 1 THEN AVS3_ParseReferencePictureListSet(s)
    ELSE AVS3_ReferencePictureListSets(
             AVS3_ReferencePictureListSets(s, length \div 2), length - length \div 2)

\* statement i of the block read when profile_id is 0x30 or 0x32, applied to
\* the parse s made by the statements before it
AVS3_EnhancedToolsStatement(s, i) ==
    CASE i = 0 -> U(U(U(s, "pmc_enable_flag", 1), "iip_enable_flag", 1), "sawp_enable_flag", 1)
      [] i = 1 -> IF Get(s, "affine_enable_flag") = 1 THEN U(s, "asr_enable_flag", 1) ELSE s
      [] i = 2 -> U(s, "awp_enable_flag", 1)
      [] i = 3 -> U(s, "etmvp_mvap_enable_flag", 1)
      [] i = 4 -> U(s, "dmvr_enable_flag", 1)
      [] i = 5 -> U(s, "bio_enable_flag", 1)
      [] i = 6 -> U(s, "bgc_enable_flag", 1)
      [] i = 7 -> U(s, "inter_pf_enable_flag", 1)
      [] i = 8 -> U(s, "inter_pc_enable_flag", 1)
      [] i = 9 -> U(s, "obmc_enable_flag", 1)
      [] i = 10 -> U(s, "sbt_enable_flag", 1)
      [] i = 11 -> U(s, "ist_enable_flag", 1)
      [] i = 12 -> U(s, "esao_enable_flag", 1)
      [] i = 13 -> U(s, "ccsao_enable_flag", 1)
      [] i = 14 -> IF Get(s, "alf_enable_flag") = 1 THEN U(s, "ealf_enable_flag", 1) ELSE s
      [] i = 15 -> U(s, "ibc_enable_flag", 1)
      [] i = 16 -> Marker(s)
      [] i = 17 -> U(s, "isc_enable_flag", 1)
      [] i = 18 -> IF Get(s, "ibc_enable_flag") = 1 \/ Get(s, "isc_enable_flag") = 1
                   THEN U(s, "num_of_intra_hmvp_cand", 4) ELSE s
      [] i = 19 -> U(s, "fimc_enable_flag", 1)
      [] i = 20 -> U(s, "nn_tools_set_hook", 8)
      [] i = 21 -> IF And32(Get(s, "nn_tools_set_hook"), 1) = 1
                   THEN UE(s, "num_of_nn_filter_minus1") ELSE s
      [] i = 22 -> Marker(s)

\* statements from..to in program order (the first half of them, then the
\* rest)
RECURSIVE AVS3_EnhancedToolsStatements(_, _, _)
AVS3_EnhancedToolsStatements(s, from, to) ==
    IF from = to THEN AVS3_EnhancedToolsStatement(s, from)
    ELSE Then(AVS3_EnhancedToolsStatements(s, from, (from + to) \div 2), LAMBDA t :
             AVS3_EnhancedToolsStatements(t, (from + to) \div 2 + 1, to))

AVS3_ParseEnhancedTools(s) == AVS3_EnhancedToolsStatements(s, 0, 22)

\* statement i of AVS3Analyzer.parseSequenceHeader, applied to the parse s
\* made by the statements before it
AVS3_SequenceHeaderStatement(s, i) ==
    CASE i = 0 -> Skip(s, 32)
      [] i = 1 -> U(s, "profile_id", 8)
      [] i = 2 -> U(s, "level_id", 8)
      [] i = 3 -> U(s, "progressive_sequence", 1)
      [] i = 4 -> U(s, "field_coded_sequence", 1)
      [] i = 5 -> U(s, "library_stream_flag", 1)
      [] i = 6 -> IF Get(s, "library_stream_flag") = 0
                  THEN LET a == U(s, "library_picture_enable_flag", 1)
                       IN  IF Get(a, "library_picture_enable_flag") = 1
                           THEN U(a, "duplicate_sequence_header_flag", 1) ELSE a
                  ELSE s
      [] i = 7 -> Marker(s)
      [] i = 8 -> U(s, "horizontal_size", 14)
      [] i = 9 -> Marker(s)
      [] i = 10 -> U(s, "vertical_size", 14)
      [] i = 11 -> U(s, "chroma_format", 2)
      [] i = 12 -> U(s, "sample_precision", 3)
      [] i = 13 -> IF Get(s, "profile_id") \in {34, 50}
                   THEN U(s, "encoding_precision", 3) ELSE s
      [] i = 14 -> Marker(s)
      [] i = 15 -> U(s, "aspect_ratio", 4)
      [] i = 16 -> U(s, "frame_rate_code", 4)
      [] i = 17 -> Marker(s)
      [] i = 18 -> U(s, "bit_rate_lower", 18)
      [] i = 19 -> Marker(s)
      [] i = 20 -> U(s, "bit_rate_upper", 12)
      [] i = 21 -> U(s, "low_delay", 1)
      [] i = 22 -> U(s, "temporal_id_enable_flag", 1)
      [] i = 23 -> Marker(s)
      [] i = 24 -> U(s, "bbv_buffer_size", 18)
      [] i = 25 -> Marker(s)
      [] i = 26 -> UE(s, "max_dpb_minus1")
      [] i = 27 -> U(s, "rpl1_index_exist_flag", 1)
      [] i = 28 -> U(s, "rpl1_same_as_rpl0_flag", 1)
      [] i = 29 -> Marker(s)
      [] i = 30 -> UE(s, "num_ref_pic_list_set_0")
      [] i = 31 -> IF s.ok
                   THEN AVS3_ReferencePictureListSets(
                            s, ArrayLength(s.f["num_ref_pic_list_set_0"]))
                   ELSE s
      [] i = 32 -> IF Get(s, "rpl1_same_as_rpl0_flag") = 0
                   THEN LET a == UE(s, "num_ref_pic_list_set_1")
                        IN  IF a.ok
                            THEN AVS3_ReferencePictureListSets(
                                     a, ArrayLength(a.f["num_ref_pic_list_set_1"]))
                            ELSE a
                   ELSE s
      [] i = 33 -> UE(s, "num_ref_default_active_minus1_0")
      [] i = 34 -> UE(s, "num_ref_default_active_minus1_1")
      [] i = 35 -> U(s, "log2_lcu_size_minus2", 3)
      [] i = 36 -> U(s, "log2_min_cu_size_minus2", 2)
      [] i = 37 -> U(s, "log2_max_part_ratio_minus2", 2)
      [] i = 38 -> U(s, "max_split_times_minus6", 3)
      [] i = 39 -> U(s, "log2_min_qt_size_minus2", 3)
      [] i = 40 -> U(s, "log2_max_bt_size_minus2", 3)
      [] i = 41 -> U(s, "log2_max_eqt_size_minus3", 2)
      [] i = 42 -> Marker(s)
      [] i = 43 -> U(s, "weight_quant_enable_flag", 1)
      [] i = 44 -> IF Get(s, "weight_quant_enable_flag") = 1
                   THEN LET a == U(s, "load_seq_weight_quant_data_flag", 1)
                        IN  IF Get(a, "load_seq_weight_quant_data_flag") = 1
                            THEN ParseWeightQuantMatrix(a) ELSE a
                   ELSE s
      [] i = 45 -> U(s, "st_enable_flag", 1)
      [] i = 46 -> U(s, "sao_enable_flag", 1)
      [] i = 47 -> U(s, "alf_enable_flag", 1)
      [] i = 48 -> U(s, "affine_enable_flag", 1)
      [] i = 49 -> U(s, "smvd_enable_flag", 1)
      [] i = 50 -> U(s, "ipcm_enable_flag", 1)
      [] i = 51 -> U(s, "amvr_enable_flag", 1)
      [] i = 52 -> U(s, "num_of_hmvp_cand", 4)
      [] i = 53 -> U(s, "umve_enable_flag", 1)
      [] i = 54 -> IF Get(s, "num_of_hmvp_cand") # 0 /\ Get(s, "amvr_enable_flag") = 1
                   THEN U(s, "emvr_enable_flag", 1) ELSE s
      [] i = 55 -> U(s, "intra_pf_enable_flag", 1)
      [] i = 56 -> U(s, "tscpm_enable_flag", 1)
      [] i = 57 -> MarkerCaught(s)
      [] i = 58 -> U(s, "dt_enable_flag", 1)
      [] i = 59 -> IF Get(s, "dt_enable_flag") = 1
                   THEN U(s, "log2_max_dt_size_minus4", 2) ELSE s
      [] i = 60 -> U(s, "pbt_enable_flag", 1)
      [] i = 61 -> IF Get(s, "profile_id") \in {48, 50}
                   THEN AVS3_ParseEnhancedTools(s) ELSE s
      [] i = 62 -> IF Get(s, "low_delay") = 0
                   THEN U(s, "output_reorder_delay", 5) ELSE s
      [] i = 63 -> U(s, "cross_patch_loop_filter_enable_flag", 1)
      [] i = 64 -> U(s, "ref_colocated_patch_flag", 1)
      [] i = 65 -> U(s, "stable_patch_flag", 1)
      [] i = 66 -> IF Get(s, "stable_patch_flag") = 1
                   THEN LET a == U(s, "uniform_patch_flag", 1)
                        IN  IF Get(a, "uniform_patch_flag") = 1
                            THEN UE(UE(Marker(a), "patch_width_minus1"), "patch_height_minus1")
                            ELSE a
                   ELSE s
      [] i = 67 -> Skip(s, 2)

\* statements from..to in program order (the first half of them, then the
\* rest)
RECURSIVE AVS3_SequenceHeaderStatements(_, _, _)
AVS3_SequenceHeaderStatements(s, from, to) ==
    IF from = to THEN AVS3_SequenceHeaderStatement(s, from)
    ELSE Then(AVS3_SequenceHeaderStatements(s, from, (from + to) \div 2), LAMBDA t :
             AVS3_SequenceHeaderStatements(t, (from + to) \div 2 + 1, to))

AVS3_ParseSequenceHeader(reader) == AVS3_SequenceHeaderStatements(Parsing(reader), 0, 67)

\* statement i of AVS3Analyzer.parseSequenceDisplayExtension (a failed parse
\* returns null), applied to the parse s made by the statements before it
AVS3_SequenceDisplayExtensionStatement(s, i) ==
    CASE i = 0 -> Skip(Skip(s, 32), 4)
      [] i = 1 -> U(s, "video_format", 3)
      [] i = 2 -> U(s, "sample_range", 1)
      [] i = 3 -> U(s, "colour_description_flag", 1)
      [] i = 4 -> IF Get(s, "colour_description_flag") = 1
                  THEN U(U(U(s, "colour_primaries", 8), "transfer_characteristics", 8),
                         "matrix_coefficients", 8)
                  ELSE s
      [] i = 5 -> U(s, "display_horizontal_size", 14)
      [] i = 6 -> Marker(s)
      [] i = 7 -> U(s, "display_vertical_size", 14)
      [] i = 8 -> U(s, "td_mode_flag", 1)
      [] i = 9 -> IF Get(s, "td_mode_flag") = 1
                  THEN U(U(s, "td_packing_mode", 8), "view_reverse_flag", 1)
                  ELSE s

\* statements from..to in program order (the first half of them, then the
\* rest)
RECURSIVE AVS3_SequenceDisplayExtensionStatements(_, _, _)
AVS3_SequenceDisplayExtensionStatements(s, from, to) ==
    IF from = to THEN AVS3_SequenceDisplayExtensionStatement(s, from)
    ELSE Then(AVS3_SequenceDisplayExtensionStatements(s, from, (from + to) \div 2), LAMBDA t :
             AVS3_SequenceDisplayExtensionStatements(t, (from + to) \div 2 + 1, to))

AVS3_ParseSequenceDisplayExtension(reader) == AVS3_SequenceDisplayExtensionStatements(Parsing(reader), 0, 9)

\* parseHDRDynamicMetadataExtension
AVS3_ParseHDRDynamicMetadataExtension(reader) ==
    U(Skip(Skip(Parsing(reader), 32), 4), "hdr_dynamic_metadata_type", 4)

AVS3_AnalyzeStep(data, st) ==
    LET offset == st.offset
        startCode == At(data, offset + 3)
        extension_id == At(data, offset + 4) \div 16
    IN  IF ~(offset < Len(data) - 4) THEN [st EXCEPT !.done = TRUE]
        ELSE IF ~IsStartCodePrefix(data, offset) THEN [st EXCEPT !.offset = offset + 1]
        ELSE IF startCode = SEQ_START_CODE
        THEN [st EXCEPT !.offset = offset + 4,
                        !.sequenceHeader =
                            CapturedOr(offset,
                                       AVS3_ParseSequenceHeader(BitReader(data, offset)),
                                       @)]
        ELSE IF startCode = EXTENSION_START_CODE
        THEN IF ~(offset + 4 < Len(data)) THEN [st EXCEPT !.offset = offset + 4]
             ELSE IF extension_id = SEQUENCE_DISPLAY_EXTENSION_ID
             THEN IF st.sequenceHeader.present
                  THEN [st EXCEPT !.offset = offset + 4,
                                  !.displayExtension =
                                      CapturedOr(offset,
                                                 AVS3_ParseSequenceDisplayExtension(BitReader(data, offset)),
                                                 Null)]
                  ELSE [st EXCEPT !.offset = offset + 4]
             ELSE IF extension_id = HDR_DYNAMIC_METADATA_EXTENSION_ID
             THEN IF st.sequenceHeader.present
                  THEN [st EXCEPT !.offset = offset + 4,
                                  !.hdrDynamicMetadataExtension =
                                      CapturedOr(offset,
                                                 AVS3_ParseHDRDynamicMetadataExtension(BitReader(data, offset)),
                                                 Null)]
                  ELSE [st EXCEPT !.offset = offset + 4]
             ELSE [st EXCEPT !.offset = offset + 4]
        ELSE IF startCode \in {PIC_START_I, PIC_START_PB} THEN [st EXCEPT !.done = TRUE]
        ELSE [st EXCEPT !.offset = offset + 4]

\* rounds of the while loop, at most n of them (the first half of them, then
\* the rest); the loop has ended when st.done
RECURSIVE AVS3_AnalyzeLoop(_, _, _)
AVS3_AnalyzeLoop(data, st, n) ==
    IF st.done \/ n = 0 THEN st
    ELSE IF n = 1 THEN AVS3_AnalyzeStep(data, st)
    ELSE AVS3_AnalyzeLoop(data, AVS3_AnalyzeLoop(data, st, n \div 2), n - n \div 2)

AVS3_Analyze(data) ==
    Then(AVS3_AnalyzeLoop(data, ScanStart, Len(data) + 1), LAMBDA end :
        IF end.sequenceHeader.present
        THEN [present |-> TRUE, sequenceHeader |-> end.sequenceHeader,
              displayExtension |-> end.displayExtension,
              hdrDynamicMetadataExtension |-> end.hdrDynamicMetadataExtension]
        ELSE [present |-> FALSE, sequenceHeader |-> Null, displayExtension |-> Null,
              hdrDynamicMetadataExtension |-> Null])

(***************************************************************************)
(* AVS2Analyzer (src/unnamed/part_003).                                    *)
(***************************************************************************)
\* count calls of reader.readBits(n)
RECURSIVE ReadMany(_, _, _, _)
ReadMany(s, name, n, count) ==
    IF ~s.ok \/ ~(count > 0) THEN s
    ELSE IF count = 1 THEN U(s, name, n)
    ELSE ReadMany(ReadMany(s, name, n, count \div 2), name, n, count - count \div 2)

AVS2_ParseReferenceConfigurationSet(s) ==
    LET a == U(s, "refered_by_others_flag", 1)
        b == U(a, "num_of_reference_picture", 3)
        c == Then(b, LAMBDA t :
                 ReadMany(t, "delta_doi_of_reference_picture", 6,
                          Get(t, "num_of_reference_picture")))
        d == U(c, "num_of_removed_picture", 3)
        e == Then(d, LAMBDA t :
                 ReadMany(t, "delta_doi_of_removed_picture", 6,
                          Get(t, "num_of_removed_picture")))
    IN  Marker(e)

\* Array.from({length: num_of_rcs}, () => this.parseReferenceConfigurationSet(reader))
RECURSIVE AVS2_ReferenceConfigurationSets(_, _)
AVS2_ReferenceConfigurationSets(s, length) ==
    IF ~s.ok \/ ~(length > 0) THEN s
    ELSE IF length = 1 THEN AVS2_ParseReferenceConfigurationSet(s)
    ELSE AVS2_ReferenceConfigurationSets(
             AVS2_ReferenceConfigurationSets(s, length \div 2), length - length \div 2)

AVS2_ParseDepthRange(s) ==
    LET a == U(U(s, "z_near_sign", 1), "z_near_exponent", 8)
        b == Marker(U(Marker(a), "z_near_mantissa", 22))
        c == U(U(b, "z_far_sign", 1), "z_far_exponent", 8)
    IN  Marker(U(Marker(c), "z_far_mantissa", 22))

AVS2_ParseCameraParameterSet(s) ==
    LET a == U(s, "focal_length_exponent", 8)
        b == Marker(U(Marker(a), "focal_length_mantissa", 22))
        c == U(U(b, "camera_position_sign", 1), "camera_position_exponent", 8)
        d == Marker(U(Marker(c), "camera_position_mantissa", 22))
        e == U(d, "camera_shift_x_exponent", 8)
        f == Marker(U(Marker(e), "camera_shift_x_mantissa", 22))
    IN  Marker(U(f, "camera_shift_x_sign", 1))

\* Array.from({length: numberOfViews}, () => this.parseCameraParameterSet(reader))
RECURSIVE AVS2_CameraParameterSets(_, _)
AVS2_CameraParameterSets(s, length) ==
    IF ~s.ok \/ ~(length > 0) THEN s
    ELSE IF length = 1 THEN AVS2_ParseCameraParameterSet(s)
    ELSE AVS2_CameraParameterSets(
             AVS2_CameraParameterSets(s, length \div 2), length - length \div 2)

\* Array.from({length: numberOfViews}, () => this.parseDepthRange(reader))
RECURSIVE AVS2_DepthRanges(_, _)
AVS2_DepthRanges(s, length) ==
    IF ~s.ok \/ ~(length > 0) THEN s
    ELSE IF length = 1 THEN AVS2_ParseDepthRange(s)
    ELSE AVS2_DepthRanges(AVS2_DepthRanges(s, length \div 2), length - length \div 2)

\* numberOfViews = (number_of_views_minus1 ?? 0) + 1
AVS2_NumberOfViews(s) == Get(s, "number_of_views_minus1") + 1

\* statement i of the block read when profile_id is 0x68 or 0x6A, applied to
\* the parse s made by the statements before it
AVS2_DepthToolsStatement(s, i) ==
    CASE i = 0 -> U(s, "depth_coding_enable_flag", 1)
      [] i = 1 -> U(s, "camera_parameter_present_flag", 1)
      [] i = 2 -> IF Get(s, "camera_parameter_present_flag") = 1
                  THEN LET x == U(s, "camera_parameter_change_flag", 1)
                       IN  IF x.ok /\ Get(x, "camera_parameter_change_flag") = 0
                           THEN AVS2_CameraParameterSets(x, AVS2_NumberOfViews(x))
                           ELSE x
                  ELSE s
      [] i = 3 -> IF Get(s, "depth_coding_enable_flag") = 1
                  THEN LET x == U(s, "depth_range_change_flag", 1)
                       IN  IF x.ok /\ Get(x, "depth_range_change_flag") = 0
                           THEN LET y == AVS2_DepthRanges(x, AVS2_NumberOfViews(x))
                                    z == ReadUEs(y, "min_dv", AVS2_NumberOfViews(x) - 1)
                                IN  ReadUEs(z, "max_dv", AVS2_NumberOfViews(x) - 1)
                           ELSE x
                  ELSE s
      [] i = 4 -> IF Get(s, "depth_coding_enable_flag") = 1
                     /\ Get(s, "global_interview_motion_vector_enable_flag") = 1
                  THEN U(s, "depth_gdv_from_texture_enable_flag", 1)
                  ELSE s

\* statements from..to in program order (the first half of them, then the
\* rest)
RECURSIVE AVS2_DepthToolsStatements(_, _, _)
AVS2_DepthToolsStatements(s, from, to) ==
    IF from = to THEN AVS2_DepthToolsStatement(s, from)
    ELSE Then(AVS2_DepthToolsStatements(s, from, (from + to) \div 2), LAMBDA t :
             AVS2_DepthToolsStatements(t, (from + to) \div 2 + 1, to))

AVS2_ParseDepthTools(s) == AVS2_DepthToolsStatements(s, 0, 4)

\* statement i of AVS2Analyzer.parseSequenceHeader, applied to the parse s
\* made by the statements before it
AVS2_SequenceHeaderStatement(s, i) ==
    CASE i = 0 -> Skip(s, 32)
      [] i = 1 -> U(s, "profile_id", 8)
      [] i = 2 -> U(s, "level_id", 8)
      [] i = 3 -> U(s, "progressive_sequence", 1)
      [] i = 4 -> U(s, "field_coded_sequence", 1)
      [] i = 5 -> U(s, "horizontal_size", 14)
      [] i = 6 -> U(s, "vertical_size", 14)
      [] i = 7 -> U(s, "chroma_format", 2)
      [] i = 8 -> U(s, "sample_precision", 3)
      [] i = 9 -> IF Get(s, "profile_id") \in {34, 18, 50}
                  THEN U(s, "encoding_precision", 3) ELSE s
      [] i = 10 -> U(s, "aspect_ratio_info", 4)
      [] i = 11 -> U(s, "frame_rate_code", 4)
      [] i = 12 -> U(s, "bit_rate_lower", 18)
      [] i = 13 -> Marker(s)
      [] i = 14 -> U(s, "bit_rate_upper", 12)
      [] i = 15 -> U(s, "low_delay", 1)
      [] i = 16 -> Marker(s)
      [] i = 17 -> U(s, "temporal_id_enable_flag", 1)
      [] i = 18 -> U(s, "bbv_buffer_size", 18)
      [] i = 19 -> U(s, "lcu_size", 3)
      [] i = 20 -> U(s, "weight_quant_enable_flag", 1)
      [] i = 21 -> IF Get(s, "weight_quant_enable_flag") = 1
                   THEN LET a == U(s, "load_seq_weight_quant_data_flag", 1)
                        IN  IF Get(a, "load_seq_weight_quant_data_flag") = 1
                            THEN ParseWeightQuantMatrix(a) ELSE a
                   ELSE s
      [] i = 22 -> U(s, "scene_picture_disable_flag", 1)
      [] i = 23 -> U(s, "multi_hypothesis_skip_enable_flag", 1)
      [] i = 24 -> U(s, "dual_hypothesis_prediction_enable_flag", 1)
      [] i = 25 -> U(s, "weighted_skip_enable_flag", 1)
      [] i = 26 -> U(s, "asymmetric_motion_partitions_enable_flag", 1)
      [] i = 27 -> U(s, "nonsquare_quadtree_transform_enable_flag", 1)
      [] i = 28 -> U(s, "nonsquare_intra_prediction_enable_flag", 1)
      [] i = 29 -> U(s, "secondary_transform_enable_flag", 1)
      [] i = 30 -> U(s, "sample_adaptive_offset_enable_flag", 1)
      [] i = 31 -> U(s, "adaptive_leveling_filter_enable_flag", 1)
      [] i = 32 -> U(s, "pmvr_enable_flag", 1)
      [] i = 33 -> Marker(s)
      [] i = 34 -> U(s, "num_of_rcs", 6)
      [] i = 35 -> AVS2_ReferenceConfigurationSets(s, Get(s, "num_of_rcs"))
      [] i = 36 -> IF Get(s, "low_delay") = 0
                   THEN U(s, "output_reorder_delay", 5) ELSE s
      [] i = 37 -> U(s, "cross_slice_loopfilter_enable_flag", 1)
      [] i = 38 -> IF Get(s, "chroma_format") = 3
                   THEN U(s, "universal_string_prediction_enable_flag", 1) ELSE s
      [] i = 39 -> IF Get(s, "profile_id") \in {40, 42, 104, 106}
                   THEN U(U(U(Marker(s), "number_of_views_minus1", 5),
                            "global_interview_motion_vector_enable_flag", 1),
                          "local_interview_motion_vector_range_minus1", 3)
                   ELSE s
      [] i = 40 -> IF Get(s, "profile_id") \in {104, 106}
                   THEN AVS2_ParseDepthTools(s) ELSE s
      [] i = 41 -> IF Get(s, "profile_id") \in {48, 50}
                      /\ Get(s, "scene_picture_disable_flag") = 0
                   THEN LET a == U(s, "scene_picture_block_update_enable_flag", 1)
                            b == IF Get(a, "scene_picture_block_update_enable_flag") = 1
                                 THEN U(a, "bcbr_constrained_update_enable_flag", 1) ELSE a
                        IN  Skip(b, 1)
                   ELSE Skip(s, 2)

\* statements from..to in program order (the first half of them, then the
\* rest)
RECURSIVE AVS2_SequenceHeaderStatements(_, _, _)
AVS2_SequenceHeaderStatements(s, from, to) ==
    IF from = to THEN AVS2_SequenceHeaderStatement(s, from)
    ELSE Then(AVS2_SequenceHeaderStatements(s, from, (from + to) \div 2), LAMBDA t :
             AVS2_SequenceHeaderStatements(t, (from + to) \div 2 + 1, to))

AVS2_ParseSequenceHeader(reader) == AVS2_SequenceHeaderStatements(Parsing(reader), 0, 41)

\* the for loop over the views: a depth range and a camera parameter set each
RECURSIVE AVS2_DepthAndCameraSets(_, _)
AVS2_DepthAndCameraSets(s, numberOfViews) ==
    IF ~s.ok \/ ~(numberOfViews > 0) THEN s
    ELSE IF numberOfViews = 1
    THEN AVS2_ParseCameraParameterSet(AVS2_ParseDepthRange(s))
    ELSE AVS2_DepthAndCameraSets(
             AVS2_DepthAndCameraSets(s, numberOfViews \div 2),
             numberOfViews - numberOfViews \div 2)

\* statement i of parseSequenceDisplayExtension(reader, profile_id,
\* numberOfViews) (a failed parse returns null), applied to the parse s made
\* by the statements before it
AVS2_SequenceDisplayExtensionStatement(s, i, profile_id, numberOfViews) ==
    CASE i = 0 -> Skip(Skip(s, 32), 4)
      [] i = 1 -> U(s, "video_format", 3)
      [] i = 2 -> U(s, "sample_range", 1)
      [] i = 3 -> IF profile_id \in {40, 42, 104, 106}
                  THEN LET a == U(s, "sequence_content_description", 2)
                       IN  IF Get(a, "sequence_content_description") \in {1, 2}
                           THEN AVS2_DepthAndCameraSets(a, numberOfViews)
                           ELSE a
                  ELSE s
      [] i = 4 -> IF Get(s, "sequence_content_description") \in {0, 2}
                  THEN U(s, "colour_description", 1) ELSE s
      [] i = 5 -> IF Get(s, "colour_description") = 1
                  THEN U(U(U(s, "colour_primaries", 8), "transfer_characteristics", 8),
                         "matrix_coefficients", 8)
                  ELSE s
      [] i = 6 -> U(s, "display_horizontal_size", 14)
      [] i = 7 -> Marker(s)
      [] i = 8 -> U(s, "display_vertical_size", 14)
      [] i = 9 -> U(s, "td_mode_flag", 1)
      [] i = 10 -> IF Get(s, "td_mode_flag") = 1
                   THEN U(U(s, "td_packing_mode", 8), "view_reverse_flag", 1)
                   ELSE s

\* statements from..to in program order (the first half of them, then the
\* rest)
RECURSIVE AVS2_SequenceDisplayExtensionStatements(_, _, _, _, _)
AVS2_SequenceDisplayExtensionStatements(s, from, to, profile_id, numberOfViews) ==
    IF from = to THEN AVS2_SequenceDisplayExtensionStatement(s, from, profile_id, numberOfViews)
    ELSE Then(AVS2_SequenceDisplayExtensionStatements(s, from, (from + to) \div 2, profile_id, numberOfViews), LAMBDA t :
             AVS2_SequenceDisplayExtensionStatements(t, (from + to) \div 2 + 1, to, profile_id, numberOfViews))

AVS2_ParseSequenceDisplayExtension(reader, profile_id, numberOfViews) == AVS2_SequenceDisplayExtensionStatements(Parsing(reader), 0, 10, profile_id, numberOfViews)

AVS2_AnalyzeStep(data, st) ==
    LET offset == st.offset
        startCode == At(data, offset + 3)
    IN  IF ~(offset < Len(data) - 4) THEN [st EXCEPT !.done = TRUE]
        ELSE IF ~IsStartCodePrefix(data, offset) THEN [st EXCEPT !.offset = offset + 1]
        ELSE IF startCode = SEQ_START_CODE
        THEN [st EXCEPT !.offset = offset + 4,
                        !.sequenceHeader =
                            CapturedOr(offset,
                                       AVS2_ParseSequenceHeader(BitReader(data, offset)),
                                       @)]
        ELSE IF startCode = EXTENSION_START_CODE
        THEN IF offset + 4 < Len(data)
                /\ At(data, offset + 4) \div 16 = SEQUENCE_DISPLAY_EXTENSION_ID
                /\ st.sequenceHeader.present
             THEN [st EXCEPT !.offset = offset + 4,
                             !.displayExtension =
                                 CapturedOr(offset,
                                            AVS2_ParseSequenceDisplayExtension(BitReader(data, offset), st.sequenceHeader.f["profile_id"], AVS2_NumberOfViews(st.sequenceHeader)),
                                            Null)]
             ELSE [st EXCEPT !.offset = offset + 4]
        ELSE IF startCode \in {PIC_START_I, PIC_START_PB} THEN [st EXCEPT !.done = TRUE]
        ELSE [st EXCEPT !.offset = offset + 4]

\* rounds of the while loop, at most n of them (the first half of them, then
\* the rest); the loop has ended when st.done
RECURSIVE AVS2_AnalyzeLoop(_, _, _)
AVS2_AnalyzeLoop(data, st, n) ==
    IF st.done \/ n = 0 THEN st
    ELSE IF n = 1 THEN AVS2_AnalyzeStep(data, st)
    ELSE AVS2_AnalyzeLoop(data, AVS2_AnalyzeLoop(data, st, n \div 2), n - n \div 2)

AVS2_Analyze(data) ==
    Then(AVS2_AnalyzeLoop(data, ScanStart, Len(data) + 1), LAMBDA end :
        IF end.sequenceHeader.present
        THEN [present |-> TRUE, sequenceHeader |-> end.sequenceHeader,
              displayExtension |-> end.displayExtension]
        ELSE [present |-> FALSE, sequenceHeader |-> Null, displayExtension |-> Null])

(***************************************************************************)
(* Writing a bitstream: the inverse of the reads above, used to build the  *)
(* inputs.  A syntax element is [k, n, v]: "u" for u(n) of value v, "m"    *)
(* for a marker bit, "ue" for ue(v).                                       *)
(***************************************************************************)
FU(n, v) == [k |-> "u", n |-> n, v |-> v]
FM == [k |-> "m", n |-> 1, v |-> 1]
FE(v) == [k |-> "ue", n |-> 0, v |-> v]

\* the n bits of v, most significant first
BitsOf(n, v) == [i \in 1..n |-> (v \div Pow2(n - i)) % 2]

\* 2^k - 1
RECURSIVE Pow2Minus1(_)
Pow2Minus1(k) == IF k = 0 THEN 0 ELSE 2 * Pow2Minus1(k - 1) + 1

\* the unsigned Exp-Golomb code of v: k zeros, a one, and the k low bits of
\* v + 1, where 2^k <= v + 1 < 2^(k+1)
ExpGolomb(v) ==
    LET k == CHOOSE j \in 0..31 : Pow2Minus1(j) <= v /\ (j = 31 \/ v - Pow2Minus1(j) <= Pow2Minus1(j))
    IN  [i \in 1..k |-> 0] \o <<1>> \o BitsOf(k, v - Pow2Minus1(k))

ElementBits(e) ==
    IF e.k = "m" THEN <<1>>
    ELSE IF e.k = "ue" THEN ExpGolomb(e.v)
    ELSE BitsOf(e.n, e.v)

\* the bits of the elements in order (of the first half of them, then of the rest)
RECURSIVE SyntaxBits(_)
SyntaxBits(elements) ==
    IF elements = << >> THEN << >>
    ELSE IF Len(elements) = 1 THEN ElementBits(elements[1])
    ELSE SyntaxBits(SubSeq(elements, 1, Len(elements) \div 2))
         \o SyntaxBits(SubSeq(elements, Len(elements) \div 2 + 1, Len(elements)))

\* the positions (1 = first bit) of the marker bits in SyntaxBits(elements)
MarkerPositions(elements) ==
    { Len(SyntaxBits(SubSeq(elements, 1, i - 1))) + 1 :
          i \in {j \in 1..Len(elements) : elements[j].k = "m"} }

\* the bytes that hold the bits, the last byte filled up with zeros
PackBytes(bits) ==
    LET bit(i) == IF i <= Len(bits) THEN bits[i] ELSE 0
    IN  [j \in 1..((Len(bits) + 7) \div 8) |->
            (bit(8 * j - 7) * 8 + bit(8 * j - 6) * 4 + bit(8 * j - 5) * 2 + bit(8 * j - 4)) * 16
            + (bit(8 * j - 3) * 8 + bit(8 * j - 2) * 4 + bit(8 * j - 1) * 2 + bit(8 * j))]

\* a start code followed by the bits; bit position `cleared` is set to 0
\* (0 clears nothing)
Unit(startCode, bits, cleared) ==
    <<0, 0, 1, startCode>>
    \o PackBytes([i \in 1..Len(bits) |-> IF i = cleared THEN 0 ELSE bits[i]])

(***************************************************************************)
(* Valid sequence headers, as the lists of their syntax elements (after    *)
(* the start code), following the syntax the parsers read.                 *)
(***************************************************************************)
\* AVS1: profile_id 0x20 (Jizhun) or 0x24 (Shenzhan, with its extra fields)
AVS1_HeaderElements(profile_id, core_picture_disable) ==
    << FU(8, profile_id), FU(8, 64), FU(1, 1), FU(14, 1920), FU(14, 1080),
       FU(2, 1), FU(3, 1), FU(4, 3), FU(4, 3), FU(18, 12500), FM, FU(12, 0),
       FU(1, 0), FM, FU(18, 1000) >>
    \o (IF profile_id = 36
        THEN << FU(1, 0), FU(1, core_picture_disable) >>
             \o (IF core_picture_disable = 0 THEN << FU(4, 2) >> ELSE << >>)
             \o << FU(1, 0), FM, FU(4, 0) >>
             \o (IF core_picture_disable = 0 THEN << FU(3, 0) >> ELSE << FU(5, 0) >>)
        ELSE << FU(3, 0) >>)

AVS1_Headers ==
    { AVS1_HeaderElements(32, 0), AVS1_HeaderElements(36, 0), AVS1_HeaderElements(36, 1) }

\* AVS2: one reference configuration set; profile_id 0x20 (main), 0x22 (main
\* 10 bit, with encoding_precision) or 0x68 (with one view: a camera
\* parameter set and a depth range)
AVS2_ReferenceConfigurationSetElements ==
    << FU(1, 1), FU(3, 1), FU(6, 1), FU(3, 0), FM >>

AVS2_DepthRangeElements ==
    << FU(1, 0), FU(8, 3), FM, FU(22, 5), FM, FU(1, 0), FU(8, 7), FM, FU(22, 9), FM >>

AVS2_CameraParameterSetElements ==
    << FU(8, 3), FM, FU(22, 5), FM, FU(1, 0), FU(8, 7), FM, FU(22, 9), FM,
       FU(8, 11), FM, FU(22, 13), FM, FU(1, 0), FM >>

AVS2_HeaderElements(profile_id, low_delay) ==
    << FU(8, profile_id), FU(8, 64), FU(1, 1), FU(1, 0), FU(14, 1920), FU(14, 1080),
       FU(2, 1), FU(3, 1) >>
    \o (IF profile_id \in {34, 18, 50} THEN << FU(3, 2) >> ELSE << >>)
    \o << FU(4, 3), FU(4, 3), FU(18, 12500), FM, FU(12, 0), FU(1, low_delay), FM,
          FU(1, 0), FU(18, 1000), FU(3, 6), FU(1, 0),
          FU(1, 1), FU(1, 1), FU(1, 1), FU(1, 1), FU(1, 1), FU(1, 1), FU(1, 1),
          FU(1, 1), FU(1, 1), FU(1, 1), FU(1, 1), FM, FU(6, 1) >>
    \o AVS2_ReferenceConfigurationSetElements
    \o (IF low_delay = 0 THEN << FU(5, 2) >> ELSE << >>)
    \o << FU(1, 1) >>
    \o (IF profile_id \in {40, 42, 104, 106}
        THEN << FM, FU(5, 0), FU(1, 0), FU(3, 0) >> ELSE << >>)
    \o (IF profile_id \in {104, 106}
        THEN << FU(1, 1), FU(1, 1), FU(1, 0) >> \o AVS2_CameraParameterSetElements
             \o << FU(1, 0) >> \o AVS2_DepthRangeElements
        ELSE << >>)
    \o << FU(2, 0) >>

AVS2_Headers ==
    { AVS2_HeaderElements(32, 0), AVS2_HeaderElements(34, 1), AVS2_HeaderElements(104, 0) }

\* AVS3: one reference picture list set with one picture; profile_id 0x20
\* (main 8 bit) or 0x32 (high 10 bit, with encoding_precision and the
\* enhanced tools)
AVS3_HeaderElements(profile_id, low_delay, uniform_patch_flag) ==
    << FU(8, profile_id), FU(8, 64), FU(1, 1), FU(1, 0), FU(1, 0), FU(1, 0),
       FM, FU(14, 1920), FM, FU(14, 1080), FU(2, 1), FU(3, 1) >>
    \o (IF profile_id \in {34, 50} THEN << FU(3, 2) >> ELSE << >>)
    \o << FM, FU(4, 3), FU(4, 3), FM, FU(18, 12500), FM, FU(12, 0),
          FU(1, low_delay), FU(1, 0), FM, FU(18, 1000), FM, FE(3),
          FU(1, 1), FU(1, 1), FM, FE(1),
          FE(1), FE(1), FU(1, 0),
          FE(1), FE(1), FU(3, 5), FU(2, 1), FU(2, 1), FU(3, 0), FU(3, 1), FU(3, 4),
          FU(2, 3), FM, FU(1, 0),
          FU(1, 1), FU(1, 1), FU(1, 1), FU(1, 1), FU(1, 1), FU(1, 1), FU(1, 1),
          FU(4, 8), FU(1, 1), FU(1, 1), FU(1, 1), FU(1, 1), FM,
          FU(1, 1), FU(2, 1), FU(1, 1) >>
    \o (IF profile_id \in {48, 50}
        THEN << FU(1, 1), FU(1, 1), FU(1, 1), FU(1, 1), FU(1, 1), FU(1, 1), FU(1, 1),
                FU(1, 1), FU(1, 1), FU(1, 1), FU(1, 1), FU(1, 1), FU(1, 1), FU(1, 1),
                FU(1, 1), FU(1, 1), FU(1, 1), FU(1, 1), FM, FU(1, 1), FU(4, 3),
                FU(1, 1), FU(8, 1), FE(0), FM >>
        ELSE << >>)
    \o (IF low_delay = 0 THEN << FU(5, 2) >> ELSE << >>)
    \o << FU(1, 1), FU(1, 1), FU(1, 1), FU(1, uniform_patch_flag) >>
    \o (IF uniform_patch_flag = 1 THEN << FM, FE(7), FE(3) >> ELSE << >>)
    \o << FU(2, 0) >>

AVS3_Headers ==
    { AVS3_HeaderElements(32, 0, 0), AVS3_HeaderElements(32, 1, 1),
      AVS3_HeaderElements(50, 0, 1) }

\* the sequence display extension of each standard: extension_id 0010, then
\* its fields with a colour description (and no 3D mode)
AVS1_DisplayExtensionElements ==
    << FU(4, 2), FU(3, 1), FU(1, 0), FU(1, 1), FU(8, 1), FU(8, 1), FU(8, 1),
       FU(14, 1920), FM, FU(14, 1080), FU(2, 0) >>

AVS2_DisplayExtensionElements ==
    << FU(4, 2), FU(3, 1), FU(1, 0), FU(1, 1), FU(8, 1), FU(8, 1), FU(8, 1),
       FU(14, 1920), FM, FU(14, 1080), FU(1, 0) >>

AVS3_DisplayExtensionElements == AVS2_DisplayExtensionElements

(***************************************************************************)
(* The video analyzers called on elementary streams.                       *)
(***************************************************************************)
\* elementary-stream units in the longest stream analysed
MaxUnits == 3

VideoStandards == {"AVS1", "AVS2", "AVS3"}

HeadersOf(standard) ==
    IF standard = "AVS1" THEN AVS1_Headers
    ELSE IF standard = "AVS2" THEN AVS2_Headers
    ELSE AVS3_Headers

DisplayExtensionElementsOf(standard) ==
    IF standard = "AVS1" THEN AVS1_DisplayExtensionElements
    ELSE IF standard = "AVS2" THEN AVS2_DisplayExtensionElements
    ELSE AVS3_DisplayExtensionElements

ParseSequenceHeaderOf(standard, reader) ==
    IF standard = "AVS1" THEN AVS1_ParseSequenceHeader(reader)
    ELSE IF standard = "AVS2" THEN AVS2_ParseSequenceHeader(reader)
    ELSE AVS3_ParseSequenceHeader(reader)

AnalyzeOf(standard, data) ==
    IF standard = "AVS1" THEN AVS1_Analyze(data)
    ELSE IF standard = "AVS2" THEN AVS2_Analyze(data)
    ELSE AVS3_Analyze(data)

\* a picture header: its start code and two bytes
PictureUnit == <<0, 0, 1, PIC_START_I, 128, 64>>

\* a sequence header unit with one bit cleared (0: none)
HeaderUnit(elements, cleared) == Unit(SEQ_START_CODE, SyntaxBits(elements), cleared)

\* the header of a standard used in the longer streams
FirstHeaderOf(standard) ==
    IF standard = "AVS1" THEN AVS1_HeaderElements(32, 0)
    ELSE IF standard = "AVS2" THEN AVS2_HeaderElements(32, 0)
    ELSE AVS3_HeaderElements(32, 0, 0)

\* the units of the longer streams: a valid sequence header, a sequence header
\* whose first marker bit is 0, a sequence display extension, a picture header
UnitKinds == {"header", "broken", "display", "picture"}

UnitOf(standard, kind) ==
    IF kind = "header" THEN HeaderUnit(FirstHeaderOf(standard), 0)
    ELSE IF kind = "broken"
    THEN HeaderUnit(FirstHeaderOf(standard),
                    CHOOSE p \in MarkerPositions(FirstHeaderOf(standard)) :
                        \A q \in MarkerPositions(FirstHeaderOf(standard)) : p <= q)
    ELSE IF kind = "display"
    THEN Unit(EXTENSION_START_CODE, SyntaxBits(DisplayExtensionElementsOf(standard)), 0)
    ELSE PictureUnit

RECURSIVE StreamOf(_, _)
StreamOf(standard, kinds) ==
    IF kinds = << >> THEN << >>
    ELSE UnitOf(standard, Head(kinds)) \o StreamOf(standard, Tail(kinds))

\* the byte offset of unit i (1 = first) in StreamOf(standard, kinds)
UnitOffset(standard, kinds, i) == Len(StreamOf(standard, SubSeq(kinds, 1, i - 1)))

\* analyze() on a stream that is one sequence header, valid or with one of its
\* marker bits cleared, followed by a picture header
AnalyzeHeader(standard, elements, cleared) ==
    /\ call = NoCall
    /\ LET data == HeaderUnit(elements, cleared) \o PictureUnit
       IN  call' = [ op |-> "header",
                     input |-> [ standard |-> standard, data |-> data,
                                 cleared |-> cleared ],
                     output |-> [ parsed |-> ParseSequenceHeaderOf(
                                                 standard, BitReader(data, 0)).ok,
                                  record |-> AnalyzeOf(standard, data) ] ]
    /\ UNCHANGED <<demuxVars, mp4>>

\* analyze() on a stream of units
AnalyzeStream(standard, kinds) ==
    /\ call = NoCall
    /\ call' = [ op |-> "stream",
                 input |-> [ standard |-> standard, data |-> StreamOf(standard, kinds),
                             kinds |-> kinds ],
                 output |-> [ record |-> AnalyzeOf(standard, StreamOf(standard, kinds)) ] ]
    /\ UNCHANGED <<demuxVars, mp4>>

AnalyzeHeaders ==
    \E standard \in VideoStandards : \E elements \in HeadersOf(standard) :
        \E cleared \in {0} \cup MarkerPositions(elements) :
            AnalyzeHeader(standard, elements, cleared)

AnalyzeStreams ==
    \E standard \in VideoStandards : \E n \in 1..MaxUnits :
        \E kinds \in [1..n -> UnitKinds] : AnalyzeStream(standard, kinds)

NextVideo ==
    \/ AnalyzeHeaders
    \/ AnalyzeStreams

SpecVideo == Init /\ [][NextVideo]_vars

(***************************************************************************)
(* Claims on the video sequence headers (SpecVideo).                       *)
(***************************************************************************)
\* C11: for each of the AVS1, AVS2 and AVS3 sequence headers, when one of the
\* marker bits of an otherwise valid header is 0, parsing the header fails
\* and analyze() returns no record built from it (the stream holds no other
\* header, so it returns no record at all).
C11_MarkerBitGatekeeping ==
    (call.op = "header" /\ call.input.cleared # 0)
        => (~call.output.parsed /\ ~call.output.record.present)

\* C12: in the scan of each video parser, a sequence display extension
\* contributes fields to the returned record only if a sequence header was
\* successfully captured earlier in the same scan: a record that carries
\* extension fields has a valid sequence header unit at a lower offset than
\* the extension they come from.
C12_DisplayExtensionNeedsHeader ==
    (call.op = "stream" /\ call.output.record.present
        /\ call.output.record.displayExtension.present)
        => \E i \in 1..Len(call.input.kinds) :
               /\ call.input.kinds[i] = "header"
               /\ UnitOffset(call.input.standard, call.input.kinds, i)
                      < call.output.record.displayExtension.at

(***************************************************************************)
(* TSAnalyzer.detectPacketProperties (src/ts-analyzer.ts).  The function   *)
(* reads its input only through data.length and the tests                  *)
(* data[i] === SYNC_BYTE, so a file is kept as its length and the set of   *)
(* the offsets that hold 0x47: [length, syncAt].                           *)
(***************************************************************************)
PROBE_COUNT == 20
TS_PACKET_SIZE == 188
M2TS_PACKET_SIZE == 192

\* data[i] === SYNC_BYTE (an index outside the buffer reads undefined)
IsSync(data, i) == i \in data.syncAt /\ i >= 0 /\ i < data.length

\* the first for loop: the first i < data.length - 188 with data[i] === 0x47,
\* or -1
FirstSync(data) ==
    LET found == {i \in data.syncAt : i >= 0 /\ i < data.length - TS_PACKET_SIZE}
    IN  IF found = {} THEN -1
        ELSE CHOOSE i \in found : \A j \in found : i <= j

DetectPacketProperties(data) ==
    LET firstSync == FirstSync(data)
        m2tsStart == firstSync - 4
        is192 == \A i \in 0..(PROBE_COUNT - 1) :
                     IsSync(data, m2tsStart + i * M2TS_PACKET_SIZE + 4)
        is188 == \A i \in 1..(PROBE_COUNT - 1) :
                     IsSync(data, firstSync + i * TS_PACKET_SIZE)
    IN  IF firstSync = -1 THEN [size |-> TS_PACKET_SIZE, startOffset |-> 0]
        ELSE IF m2tsStart >= 0
                /\ data.length >= m2tsStart + M2TS_PACKET_SIZE * PROBE_COUNT
                /\ is192
        THEN [size |-> M2TS_PACKET_SIZE, startOffset |-> m2tsStart]
        ELSE IF data.length >= firstSync + TS_PACKET_SIZE * PROBE_COUNT /\ is188
        THEN [size |-> TS_PACKET_SIZE, startOffset |-> firstSync]
        ELSE [size |-> TS_PACKET_SIZE, startOffset |-> firstSync]

(***************************************************************************)
(* The files given to the detection.  A valid 188-byte TS file: `lead`     *)
(* bytes without 0x47, then `packets` packets of 188 bytes that each start *)
(* with 0x47.  A valid M2TS file: `lead` bytes without 0x47, then          *)
(* `packets` packets of a 4-byte header and a 188-byte TS packet.  `extra` *)
(* names the other bytes of value 0x47: in payloads for a TS file, in the  *)
(* 4-byte headers for an M2TS file.                                        *)
(***************************************************************************)
MaxLeadingBytes == 5
MaxDetectPackets == 21

\* none: no other 0x47; "stride192": the payload bytes of a TS file that lie
\* 192, 384, ... bytes after the first sync byte; "firstHeader": the second
\* byte of the first 4-byte header of an M2TS file; "headers": the last byte
\* of every 4-byte header of an M2TS file
ExtraSyncKinds == {"none", "stride192", "firstHeader", "headers"}

TSFile(lead, packets, extra) ==
    [ length |-> lead + packets * TS_PACKET_SIZE,
      syncAt |-> {lead + k * TS_PACKET_SIZE : k \in 0..(packets - 1)}
                 \cup (IF extra = "stride192"
                       THEN {lead + k * M2TS_PACKET_SIZE : k \in 0..(packets - 1)}
                       ELSE {}) ]

M2TSFile(lead, packets, extra) ==
    [ length |-> lead + packets * M2TS_PACKET_SIZE,
      syncAt |-> {lead + k * M2TS_PACKET_SIZE + 4 : k \in 0..(packets - 1)}
                 \cup (IF extra = "firstHeader" THEN {lead + 1}
                       ELSE IF extra = "headers"
                       THEN {lead + k * M2TS_PACKET_SIZE + 3 : k \in 0..(packets - 1)}
                       ELSE {}) ]

\* detectPacketProperties on a file
Detect(kind, lead, packets, extra) ==
    /\ call = NoCall
    /\ LET data == IF kind = "ts" THEN TSFile(lead, packets, extra)
                   ELSE M2TSFile(lead, packets, extra)
       IN  call' = [ op |-> "detect",
                     input |-> [ kind |-> kind, lead |-> lead, packets |-> packets,
                                 extra |-> extra, data |-> data ],
                     output |-> DetectPacketProperties(data) ]
    /\ UNCHANGED <<demuxVars, mp4>>

DetectTS ==
    \E lead \in 0..MaxLeadingBytes : \E packets \in 1..MaxDetectPackets :
        \E extra \in {"none", "stride192"} : Detect("ts", lead, packets, extra)

DetectM2TS ==
    \E lead \in 0..MaxLeadingBytes : \E packets \in 1..MaxDetectPackets :
        \E extra \in {"none", "firstHeader", "headers"} :
            Detect("m2ts", lead, packets, extra)

NextDetect ==
    \/ DetectTS
    \/ DetectM2TS

SpecDetect == Init /\ [][NextDetect]_vars

\* C13: for every valid 188-byte TS file, of any number of packets, the
\* detection returns size 188 and the offset of the first 0x47 byte as the
\* start offset.
C13_DetectsTS ==
    (call.op = "detect" /\ call.input.kind = "ts")
        => (call.output.size = 188 /\ call.output.startOffset = call.input.lead)

\* C14: for every valid 192-byte M2TS file, whatever its 4-byte headers hold,
\* the detection returns size 192 and the start offset that puts the sync
\* byte at offset +4 of every packet.
C14_DetectsM2TS ==
    (call.op = "detect" /\ call.input.kind = "m2ts")
        => (call.output.size = 192 /\ call.output.startOffset = call.input.lead)

(***************************************************************************)
(* Calls of the BitReader on its own: readBits(n) and readUE() at a bit    *)
(* position of a buffer.                                                   *)
(***************************************************************************)
MaxBufferBytes == 5
MaxSkip == 7

\* the bytes of the buffers: all zeros, all ones, the top bit of each byte,
\* all but the top bit, and two mixed patterns
BytePatterns == {"00", "FF", "80", "7F", "A5", "mixed"}

PatternByte(pattern, i) ==
    IF pattern = "00" THEN 0
    ELSE IF pattern = "FF" THEN 255
    ELSE IF pattern = "80" THEN 128
    ELSE IF pattern = "7F" THEN 127
    ELSE IF pattern = "A5" THEN 165
    ELSE (i * 73 + 19) % 256

PatternBuffer(pattern, length) == [i \in 1..length |-> PatternByte(pattern, i)]

\* the cursor of a reader, in bits from the start of the buffer
Cursor(reader) == reader.bytePosition * 8 + reader.bitPosition

\* bit i (0 = first) of a buffer, most significant bit of a byte first
BufferBit(buffer, i) == (At(buffer, i \div 8) \div Pow2(7 - (i % 8))) % 2

\* the values ue(v) is read back from: small ones, the ends of the code
\* lengths, and the two largest of [0, 2^31 - 1]
UEValues ==
    {0, 1, 2, 3, 4, 5, 6, 7, 8, 14, 15, 254, 255, 65534, 65535, 65536,
     1073741822, 1073741823, 2147483646, 2147483647}

\* readBits(n) with the cursor `start` bits into the buffer
ReadBitsCall(buffer, start, n) ==
    /\ call = NoCall
    /\ LET out == ReadBits(SkipBits(BitReader(buffer, 0), start), n)
       IN  call' = [ op |-> "readBits",
                     input |-> [ buffer |-> buffer, start |-> start, n |-> n ],
                     output |-> [ threw |-> out.threw, value |-> out.v,
                                  cursor |-> Cursor(out.r) ] ]
    /\ UNCHANGED <<demuxVars, mp4>>

\* readUE() on the Exp-Golomb code of v written `start` bits into a buffer,
\* the buffer cut `cut` bytes short of the end of the code
ReadUECall(v, start, cut) ==
    /\ call = NoCall
    /\ LET code == PackBytes([i \in 1..start |-> 1] \o ExpGolomb(v))
           buffer == SubSeq(code, 1, Len(code) - cut)
           out == ReadUE(SkipBits(BitReader(buffer, 0), start))
       IN  call' = [ op |-> "readUE",
                     input |-> [ v |-> v, start |-> start, cut |-> cut,
                                 buffer |-> buffer ],
                     output |-> [ threw |-> out.threw, value |-> out.v,
                                  cursor |-> Cursor(out.r) ] ]
    /\ UNCHANGED <<demuxVars, mp4>>

ReadBitsCalls ==
    \E pattern \in BytePatterns : \E length \in 0..MaxBufferBytes :
        \E start \in 0..MaxSkip : \E n \in 0..33 :
            ReadBitsCall(PatternBuffer(pattern, length), start, n)

ReadUECalls ==
    \E v \in UEValues : \E start \in 0..MaxSkip : \E cut \in {0, 1} :
        ReadUECall(v, start, cut)

NextBits ==
    \/ ReadBitsCalls
    \/ ReadUECalls

SpecBits == Init /\ [][NextBits]_vars

\* the number whose binary form is the n bits of the buffer from bit `start`
\* on, most significant first, as a number pair (n <= 32)
RECURSIVE BitsValue(_, _, _)
BitsValue(buffer, start, n) ==
    IF n = 0 THEN 0
    ELSE 2 * BitsValue(buffer, start, n - 1) + BufferBit(buffer, start + n - 1)

NextBitsNumber(buffer, start, n) ==
    IF n <= 16 THEN [hi |-> 0, lo |-> BitsValue(buffer, start, n)]
    ELSE [hi |-> BitsValue(buffer, start, n - 16),
          lo |-> BitsValue(buffer, start + n - 16, 16)]

\* C15: for every n in [0, 32] and every buffer with at least n bits left
\* after the cursor, readBits(n) returns the non-negative integer whose
\* binary form is the next n bits, most significant first, and advances the
\* cursor by exactly n bits.
C15_ReadBitsUnsigned ==
    (call.op = "readBits" /\ call.input.n <= 32
        /\ call.input.start + call.input.n <= 8 * Len(call.input.buffer))
        => /\ ~call.output.threw
           /\ call.output.value >= 0
           /\ NumOf(call.output.value)
                  = NextBitsNumber(call.input.buffer, call.input.start, call.input.n)
           /\ call.output.cursor = call.input.start + call.input.n

\* C16: for every integer n in [0, 2^31 - 1], readUE applied to the unsigned
\* Exp-Golomb code of n returns n.
C16_ReadUERoundTrip ==
    (call.op = "readUE" /\ call.input.cut = 0)
        => (~call.output.threw /\ call.output.value = NumOf(call.input.v))

(***************************************************************************)
(* ISOMBFFAnalyzer.analyzeFile (src/unnamed/part_001): the callbacks given *)
(* to MP4Box.  A track is [id, codec], the codec string kept as its parts  *)
(* between the dots; a sample is kept as the number that identifies its    *)
(* data.                                                                   *)
(***************************************************************************)
MaxTracks == 2
MaxDeliveries == 3

targetCodecs == {"avst", "avs3", "av3a"}

\* extractFourCC: codecString.split('.')[0]
ExtractFourCC(codecString) == codecString[1]

\* the codec strings of the tracks of the files: the three target fourCCs,
\* one of them with a suffix, and two other codecs
CodecStrings ==
    << <<"avs3">>, <<"avc1", "64001F">>, <<"av3a", "1">>, <<"avst">>, <<"mp4a", "40", "2">> >>

\* the files: n tracks with ids 1 .. n, their codecs taken in turn from
\* CodecStrings, starting at `first`
BMFFFile(n, first) ==
    [i \in 1..n |-> [id |-> i,
                     codec |-> CodecStrings[((first + i - 2) % Len(CodecStrings)) + 1]]]

\* the sample arrays MP4Box hands to onSamples
SampleBatches == {<< >>, <<1>>, <<2, 1>>}

\* handleFile up to the start of analyzeFile: a new MP4Box file and new locals
HandleFile(tracks) ==
    /\ mp4.phase = "idle"
    /\ mp4' = [mp4 EXCEPT !.phase = "reading", !.tracks = tracks,
                          !.pendingTracks = EmptyMap, !.receivedSamples = {},
                          !.resolved = FALSE, !.deliveries = << >>]
    /\ UNCHANGED <<demuxVars, call>>

\* the for loop of onReady over info.tracks, from track i on
RECURSIVE PendingTracks(_, _, _)
PendingTracks(tracks, i, pendingTracks) ==
    IF i > Len(tracks) THEN pendingTracks
    ELSE PendingTracks(tracks, i + 1,
             IF ExtractFourCC(tracks[i].codec) \in targetCodecs
             THEN MapSet(pendingTracks, tracks[i].id, ExtractFourCC(tracks[i].codec))
             ELSE pendingTracks)

\* mp4boxFile.onReady
OnReady ==
    /\ mp4.phase = "reading"
    /\ LET pendingTracks == PendingTracks(mp4.tracks, 1, mp4.pendingTracks)
       IN  mp4' = [mp4 EXCEPT !.phase = "ready",
                              !.readyDue = FALSE,
                              !.pendingTracks = pendingTracks,
                              !.resolved = (DOMAIN pendingTracks = {})]
    /\ UNCHANGED <<demuxVars, call>>

\* a variant of the condition that does not skip a track that has its sample
StoresSample_Again(track_id, samples) ==
    /\ track_id \in DOMAIN mp4.pendingTracks
    /\ Len(samples) > 0

\* the condition of onSamples: pendingTracks.has(track_id) &&
\* samples.length > 0 && !receivedSamples.has(track_id)
StoresSample(track_id, samples) ==
    /\ track_id \in DOMAIN mp4.pendingTracks
    /\ Len(samples) > 0
    /\ track_id \notin mp4.receivedSamples

\* mp4boxFile.onSamples(track_id, _ref, samples)
OnSamples(track_id, samples) ==
    /\ mp4.phase = "ready"
    /\ Len(mp4.deliveries) < MaxDeliveries
    /\ LET stores == StoresSample(track_id, samples)
           receivedSamples == mp4.receivedSamples \cup {track_id}
       IN  mp4' = [mp4 EXCEPT
                !.deliveries = Append(@, [track_id |-> track_id, samples |-> samples]),
                !.sampleDataMap = IF stores THEN MapSet(@, track_id, samples[1]) ELSE @,
                !.receivedSamples = IF stores THEN receivedSamples ELSE @,
                !.resolved = IF stores /\ Cardinality(receivedSamples)
                                              = Cardinality(DOMAIN mp4.pendingTracks)
                             THEN TRUE ELSE @]
    /\ UNCHANGED <<demuxVars, call>>

\* resetState: the analyzer is ready for another file
ResetState ==
    /\ mp4.phase # "idle"
    /\ mp4' = NewISOMBFFAnalyzer
    /\ UNCHANGED <<demuxVars, call>>

HandleFiles ==
    \E n \in 1..MaxTracks : \E first \in 1..Len(CodecStrings) :
        HandleFile(BMFFFile(n, first))

Deliveries ==
    \E track_id \in 1..MaxTracks : \E samples \in SampleBatches :
        OnSamples(track_id, samples)

NextBMFF ==
    \/ HandleFiles
    \/ OnReady
    \/ Deliveries
    \/ ResetState

SpecBMFF == Init /\ [][NextBMFF]_vars

\* the deliveries so far for a track that had samples, in order
NonEmptyDeliveries(track_id) ==
    SelectSeq(mp4.deliveries, LAMBDA d : d.track_id = track_id /\ Len(d.samples) > 0)

\* whether the file has a track with this id and one of the target fourCCs
IsTargetTrack(track_id) ==
    \E i \in 1..Len(mp4.tracks) :
        mp4.tracks[i].id = track_id /\ mp4.tracks[i].codec[1] \in {"avst", "avs3", "av3a"}

\* C17: for every track whose fourCC is avst, avs3 or av3a, what is stored is
\* the first sample of the first non-empty delivery for the track, and
\* nothing before there is one; later deliveries for the track do not change
\* it, and deliveries for the tracks of other fourCCs store nothing.
C17_FirstSampleOnly ==
    \A track_id \in 1..(MaxTracks + 1) :
        IF IsTargetTrack(track_id) /\ NonEmptyDeliveries(track_id) # << >>
        THEN /\ track_id \in DOMAIN mp4.sampleDataMap
             /\ mp4.sampleDataMap[track_id] = NonEmptyDeliveries(track_id)[1].samples[1]
        ELSE track_id \notin DOMAIN mp4.sampleDataMap

\* a target track got a second non-empty delivery with another first sample,
\* and a track of another fourCC got samples, and one sample is stored
C17_Witness ==
    \E t \in DOMAIN mp4.sampleDataMap, u \in 1..MaxTracks :
        /\ Len(NonEmptyDeliveries(t)) >= 2
        /\ NonEmptyDeliveries(t)[2].samples[1] # mp4.sampleDataMap[t]
        /\ ~IsTargetTrack(u)
        /\ NonEmptyDeliveries(u) # << >>

(***************************************************************************)
(* AV3AAnalyzer (src/avs1-common.ts) and AV3AUtils (src/av3a-common.ts).   *)
(* A JavaScript number that may be NaN is [kind, v]; an optional field of  *)
(* the header that is undefined is absent from the field map.              *)
(***************************************************************************)
Number(v) == [kind |-> "number", v |-> v]
NaN == [kind |-> "NaN", v |-> 0]

\* enum CodingProfile, enum ChannelConfiguration, enum NeuralNetworkType
CodingProfile_BASIC == 0
CodingProfile_OBJECT_METADATA == 1
CodingProfile_FOA_HOA == 2
CodingProfile_Reserved == 3
ChannelConfiguration_MONO == 0
ChannelConfiguration_Reserved == 13
NeuralNetworkType_Reserved == 2

\* BITRATE_TABLES (kbps), by channel configuration
BITRATE_TABLES ==
    [ c \in {0, 1, 2, 3, 6, 7, 8, 9, 10, 11, 12, 13} |->
        IF c = 0 THEN <<0, 32, 44, 56, 64, 72, 80, 96, 128, 144, 164, 192>>
        ELSE IF c = 1 THEN <<0, 32, 48, 64, 80, 96, 128, 144, 192, 256, 320>>
        ELSE IF c = 2 THEN <<192, 256, 320, 384, 448, 512, 640, 720, 144, 96, 128, 160>>
        ELSE IF c = 3 THEN <<192, 480, 256, 384, 576, 640, 128, 160>>
        ELSE IF c = 6 THEN <<0, 96, 128, 192, 256>>
        ELSE IF c = 7 THEN <<152, 320, 480, 576>>
        ELSE IF c = 8 THEN <<176, 384, 576, 704, 256, 448>>
        ELSE IF c = 9 THEN <<216, 480, 576, 384, 768>>
        ELSE IF c = 10 THEN <<240, 608, 384, 512, 832>>
        ELSE IF c = 12 THEN <<192, 256, 320, 384, 480, 512, 640>>
        ELSE IF c = 11 THEN <<256, 320, 384, 512, 640, 896>>
        ELSE << >> ]

\* CHANNEL_COUNTS
CHANNEL_COUNTS ==
    [ c \in {0, 1, 2, 3, 6, 7, 8, 9, 10, 11, 12, 13} |->
        IF c = 0 THEN 1 ELSE IF c = 1 THEN 2 ELSE IF c = 2 THEN 6 ELSE IF c = 3 THEN 8
        ELSE IF c = 6 THEN 4 ELSE IF c = 7 THEN 8 ELSE IF c = 8 THEN 10
        ELSE IF c = 9 THEN 10 ELSE IF c = 10 THEN 12 ELSE IF c = 12 THEN 9
        ELSE IF c = 11 THEN 16 ELSE 0 ]

\* SAMPLING_FREQUENCIES[index] || 0
GetSamplingFrequency(index) ==
    IF index \in 0..8
    THEN <<192000, 96000, 48000, 44100, 32000, 24000, 22050, 16000, 8000>>[index + 1]
    ELSE 0

GetResolution(value) ==
    IF value = 0 THEN 8 ELSE IF value = 1 THEN 16 ELSE IF value = 2 THEN 24 ELSE 0

GetChannelConfiguration(index) ==
    IF index < ChannelConfiguration_Reserved THEN index ELSE ChannelConfiguration_Reserved

GetNeuralNetworkType(value) ==
    IF value < NeuralNetworkType_Reserved THEN value ELSE NeuralNetworkType_Reserved

GetCodingProfile(value) ==
    IF value < CodingProfile_Reserved THEN value ELSE CodingProfile_Reserved

\* CHANNEL_COUNTS[config] || 0
GetChannelCount(config) ==
    IF config \in DOMAIN CHANNEL_COUNTS THEN CHANNEL_COUNTS[config] ELSE 0

IsValidAudioCodecId(codecId) == codecId = 0 \/ codecId = 1 \/ codecId = 2

\* queryBitrate for a configuration that has a table:
\* BITRATE_TABLES[channel_configuration][bitrate_index] || 0
QueryBitrate(channel_configuration, bitrate_index) ==
    LET table == BITRATE_TABLES[channel_configuration]
    IN  IF bitrate_index + 1 <= Len(table) THEN table[bitrate_index + 1] ELSE 0

\* name = queryBitrate(<the configuration held under configName>, index) * times
\* + plus: BITRATE_TABLES[c] is undefined for undefined and for a c without a
\* table, and indexing it throws a TypeError
Query(s, name, configName, index, times, plus) ==
    IF ~s.ok THEN s
    ELSE IF configName \notin DOMAIN s.f \/ s.f[configName] \notin DOMAIN BITRATE_TABLES
    THEN [s EXCEPT !.ok = FALSE]
    ELSE Let(s, name, QueryBitrate(s.f[configName], index) * times + plus)

\* parseAATFFrameHeader(reader, audio_codec_id)
ParseAATFFrameHeader(reader, audio_codec_id) ==
    LET s0 == Let(Parsing(reader), "audio_codec_id", audio_codec_id)
        s1 == Then(s0, LAMBDA s :
                  IF audio_codec_id = 2
                  THEN Then(U(s, "nn_type_raw", 3), LAMBDA a :
                           Let(a, "nn_type", GetNeuralNetworkType(Get(a, "nn_type_raw"))))
                  ELSE s)
        s2 == U(s1, "coding_profile_raw", 3)
        s3 == Then(s2, LAMBDA s :
                  Let(s, "coding_profile", GetCodingProfile(Get(s, "coding_profile_raw"))))
        s4 == U(s3, "sampling_frequency_index", 4)
        s5 == Then(s4, LAMBDA s :
                  IF audio_codec_id = 1 /\ Get(s, "sampling_frequency_index") = 15
                  THEN U(s, "sampling_frequency", 24)
                  ELSE Let(s, "sampling_frequency",
                           GetSamplingFrequency(Get(s, "sampling_frequency_index"))))
        s6 == Then(s5, LAMBDA s :
                  IF audio_codec_id # 2 THEN U(s, "raw_frame_length", 16) ELSE s)
        s7 == Skip(s6, 8)
        s8 == Then(s7, LAMBDA s :
                  IF audio_codec_id = 1
                  THEN Then(U(s, "channel_bits", 4), LAMBDA a :
                           IF Get(a, "channel_bits") = 15 THEN U(a, "channel_number", 8)
                           ELSE Let(a, "channel_number", Get(a, "channel_bits")))
                  ELSE s)
        s9 == Then(s8, LAMBDA s :
                  IF audio_codec_id = 2 /\ Get(s, "coding_profile") = CodingProfile_BASIC
                  THEN Then(U(s, "channel_number_index", 7), LAMBDA a :
                       Then(Let(a, "channel_configuration",
                                GetChannelConfiguration(Get(a, "channel_number_index"))),
                            LAMBDA b :
                                Let(b, "channel_number",
                                    GetChannelCount(Get(b, "channel_configuration")))))
                  ELSE s)
        s10 == Then(s9, LAMBDA s :
                   IF audio_codec_id = 2
                      /\ Get(s, "coding_profile") = CodingProfile_OBJECT_METADATA
                   THEN U(s, "soundBedType", 2)
                   ELSE s)
        s11 == Then(s10, LAMBDA s :
                   IF audio_codec_id = 2
                      /\ Get(s, "coding_profile") = CodingProfile_OBJECT_METADATA
                      /\ Get(s, "soundBedType") = 0
                   THEN Then(U(s, "objects_minus1", 7), LAMBDA a :
                        Then(Let(a, "object_channel_number", Get(a, "objects_minus1") + 1),
                             LAMBDA b :
                        Then(Let(U(b, "obj_bitrate_index", 4),
                                 "MONO", ChannelConfiguration_MONO), LAMBDA d :
                            Query(d, "bit_rate", "MONO", Get(d, "obj_bitrate_index"),
                                  Get(d, "object_channel_number"), 0))))
                   ELSE IF audio_codec_id = 2
                           /\ Get(s, "coding_profile") = CodingProfile_OBJECT_METADATA
                           /\ Get(s, "soundBedType") = 1
                   THEN Then(U(s, "channel_number_index", 7), LAMBDA a :
                        Then(Let(a, "channel_configuration",
                                 GetChannelConfiguration(Get(a, "channel_number_index"))),
                             LAMBDA b :
                        Then(U(U(b, "bed_bitrate_index", 4), "objects_minus1", 7),
                             LAMBDA d :
                        Then(Let(d, "object_channel_number", Get(d, "objects_minus1") + 1),
                             LAMBDA e :
                        Then(U(e, "obj_bitrate_index", 4), LAMBDA g :
                        Then(Query(g, "bed_bitrate", "channel_configuration",
                                   Get(g, "bed_bitrate_index"), 1, 0), LAMBDA h :
                        Then(Let(h, "MONO", ChannelConfiguration_MONO), LAMBDA i :
                        Then(Query(i, "bit_rate", "MONO", Get(i, "obj_bitrate_index"),
                                   Get(i, "object_channel_number"),
                                   Get(i, "bed_bitrate")), LAMBDA j :
                            Let(j, "channel_number",
                                GetChannelCount(Get(j, "channel_configuration")))))))))))
                   ELSE s)
        s12 == Then(s11, LAMBDA s :
                   IF audio_codec_id = 2 /\ Get(s, "coding_profile") = CodingProfile_FOA_HOA
                   THEN U(s, "order", 4)
                   ELSE s)
        s13 == U(s12, "resolution_raw", 2)
        s14 == Then(s13, LAMBDA s :
                   Let(s, "resolution", GetResolution(Get(s, "resolution_raw"))))
        s15 == Then(s14, LAMBDA s :
                   IF audio_codec_id = 2
                      /\ Get(s, "coding_profile") # CodingProfile_OBJECT_METADATA
                   THEN Then(U(s, "bitrate_index", 4), LAMBDA a :
                            Query(a, "bit_rate", "channel_configuration",
                                  Get(a, "bitrate_index"), 1, 0))
                   ELSE s)
        \* bit_rate *= 1000: undefined * 1000 is NaN
        s16 == Then(s15, LAMBDA s :
                   Let(s, "bit_rate",
                       IF "bit_rate" \in DOMAIN s.f THEN Number(s.f["bit_rate"] * 1000)
                       ELSE NaN))
    IN  s16

\* analyze(data), the while loop from `offset` on: the frame header of the
\* first candidate that parses, with the offset of the candidate (kept for
\* the properties), or null
RECURSIVE AV3A_AnalyzeLoop(_, _)
AV3A_AnalyzeLoop(data, offset) ==
    IF ~(offset <= Len(data) - 2) THEN Null
    ELSE IF At(data, offset) = 255 /\ At(data, offset + 1) \div 16 = 15
    THEN Then(U(U(Parsing(BitReader(data, offset)), "syncword", 12),
                "audio_codec_id", 4), LAMBDA b :
             IF ~b.ok THEN AV3A_AnalyzeLoop(data, offset + 1)
             ELSE IF ~IsValidAudioCodecId(Get(b, "audio_codec_id"))
             THEN AV3A_AnalyzeLoop(data, offset + 1)
             ELSE Then(U(b, "anc_data_index", 1), LAMBDA c :
                      IF ~c.ok THEN AV3A_AnalyzeLoop(data, offset + 1)
                      ELSE Then(ParseAATFFrameHeader(c.r, Get(b, "audio_codec_id")),
                                LAMBDA h :
                                    IF ~h.ok THEN AV3A_AnalyzeLoop(data, offset + 1)
                                    ELSE Captured(offset, h))))
    ELSE AV3A_AnalyzeLoop(data, offset + 1)

AV3A_Analyze(data) == AV3A_AnalyzeLoop(data, 0)

(***************************************************************************)
(* AV3A frames given to analyze().  A frame is written from its syntax     *)
(* elements; p holds the values of the elements: codec_id, profile (the    *)
(* raw coding_profile), sbt (soundBedType), cni (channel_number_index),    *)
(* bri (bitrate_index, also the bed's), objs (objects minus 1), obri (the  *)
(* objects' bitrate index).                                                *)
(***************************************************************************)
AV3A_FrameElements(p) ==
    << FU(12, 4095), FU(4, p.codec_id), FU(1, 0) >>
    \o (IF p.codec_id = 2 THEN << FU(3, 0) >> ELSE << >>)
    \o << FU(3, p.profile), FU(4, 2) >>
    \o (IF p.codec_id # 2 THEN << FU(16, 1024) >> ELSE << >>)
    \o << FU(8, 90) >>
    \o (IF p.codec_id = 1 THEN << FU(4, 2) >> ELSE << >>)
    \o (IF p.codec_id = 2 /\ p.profile = 0 THEN << FU(7, p.cni) >> ELSE << >>)
    \o (IF p.codec_id = 2 /\ p.profile = 1
        THEN << FU(2, p.sbt) >>
             \o (IF p.sbt = 0 THEN << FU(7, p.objs), FU(4, p.obri) >>
                 ELSE IF p.sbt = 1
                 THEN << FU(7, p.cni), FU(4, p.bri), FU(7, p.objs), FU(4, p.obri) >>
                 ELSE << >>)
        ELSE << >>)
    \o (IF p.codec_id = 2 /\ p.profile = 2 THEN << FU(4, 1) >> ELSE << >>)
    \o << FU(2, 1) >>
    \o (IF p.codec_id = 2 /\ p.profile # 1 THEN << FU(4, p.bri) >> ELSE << >>)

AV3A_Frame(p) == PackBytes(SyntaxBits(AV3A_FrameElements(p)))

AV3A_FrameParameters ==
    [ codec_id : {0, 1, 2}, profile : 0..4, sbt : 0..3, cni : {1, 4, 13},
      bri : {0, 7}, objs : {0, 3}, obri : {1, 15} ]

\* the frame of the GENERAL codec, basic profile, stereo, bitrate index 7, and
\* a frame of the LOSSLESS codec
AV3A_ValidFrames ==
    { [ codec_id |-> 2, profile |-> 0, sbt |-> 0, cni |-> 1, bri |-> 7, objs |-> 0,
        obri |-> 0 ],
      [ codec_id |-> 1, profile |-> 0, sbt |-> 0, cni |-> 0, bri |-> 0, objs |-> 0,
        obri |-> 0 ] }

\* analyze() on one frame
AnalyzeFrame(p) ==
    /\ call = NoCall
    /\ call' = [ op |-> "frame",
                 input |-> [ p |-> p, data |-> AV3A_Frame(p) ],
                 output |-> AV3A_Analyze(AV3A_Frame(p)) ]
    /\ UNCHANGED <<demuxVars, mp4>>

\* analyze() on a sync candidate FF Fx of codec id x followed by a frame; with
\* `overlap` the candidate is FF FF and its second byte is the first byte of
\* the frame
AnalyzeCandidate(audio_codec_id, overlap, p) ==
    /\ call = NoCall
    /\ overlap => audio_codec_id = 15
    /\ LET data == (IF overlap THEN <<255>> ELSE <<255, 240 + audio_codec_id>>)
                   \o AV3A_Frame(p)
       IN  call' = [ op |-> "candidate",
                     input |-> [ audio_codec_id |-> audio_codec_id, p |-> p,
                                 frameAt |-> IF overlap THEN 1 ELSE 2, data |-> data ],
                     output |-> AV3A_Analyze(data) ]
    /\ UNCHANGED <<demuxVars, mp4>>

AnalyzeFrames == \E p \in AV3A_FrameParameters : AnalyzeFrame(p)

AnalyzeCandidates ==
    \E audio_codec_id \in 0..15 : \E overlap \in BOOLEAN : \E p \in AV3A_ValidFrames :
        AnalyzeCandidate(audio_codec_id, overlap, p)

NextAV3A ==
    \/ AnalyzeFrames
    \/ AnalyzeCandidates

SpecAV3A == Init /\ [][NextAV3A]_vars

\* whether a branch of the header's syntax assigns bit_rate, and the kbps
\* value it looks up, from the elements of a parsed header
BitRateAssigned(f) ==
    /\ f["audio_codec_id"] = 2
    /\ f["coding_profile"] = 1 => f["soundBedType"] \in {0, 1}

LookedUpKbps(f) ==
    IF f["coding_profile"] # 1
    THEN QueryBitrate(f["channel_configuration"], f["bitrate_index"])
    ELSE IF f["soundBedType"] = 0
    THEN QueryBitrate(0, f["obj_bitrate_index"]) * (f["objects_minus1"] + 1)
    ELSE QueryBitrate(f["channel_configuration"], f["bed_bitrate_index"])
         + QueryBitrate(0, f["obj_bitrate_index"]) * (f["objects_minus1"] + 1)

\* C18: in a parsed AV3A frame header, bit_rate is absent when no branch
\* assigned it (codec id other than 2, or the object metadata profile with a
\* soundBedType other than 0 or 1), and is the looked-up kbps value times
\* 1000 when a branch assigned it.
C18_BitRateAbsentOrScaled ==
    (call.op = "frame" /\ call.output.present)
        => IF BitRateAssigned(call.output.f)
           THEN /\ "bit_rate" \in DOMAIN call.output.f
                /\ call.output.f["bit_rate"] = Number(LookedUpKbps(call.output.f) * 1000)
           ELSE "bit_rate" \notin DOMAIN call.output.f

\* C19: a 0xFFF sync candidate whose audio_codec_id is neither 1 nor 2 is
\* rejected, and the search resumes one byte further: no header comes from
\* the candidate, and the frame that starts one or two bytes after it is the
\* one returned.
C19_InvalidCodecIdRejected ==
    (call.op = "candidate" /\ call.input.audio_codec_id \notin {1, 2})
        => (call.output.present /\ call.output.at = call.input.frameAt)

(***************************************************************************)
(* The PMT sections of two programs on two PMT PIDs.                       *)
(***************************************************************************)
\* the PID of the PMT of program 2
PMT2_PID == PMT_PID + 2

\* a PAT listing program 1 on PMT_PID and program 2 on PMT2_PID
PktPAT12 ==
    TSPacket(PAT_PID, TRUE,
             PSIPayload(PAT_TABLE_ID, 0, 1,
                        PATEntry(1, PMT_PID) \o PATEntry(2, PMT2_PID)))

\* program 2: AVS2 video on VIDEO2_PID, carried on PMT2_PID
PktPMTB ==
    TSPacket(PMT2_PID, TRUE,
             PSIPayload(PMT_TABLE_ID, 0, 2,
                        PMTBody(VIDEO2_PID, PMTEntry(STREAM_AVS2, VIDEO2_PID, << >>))))

\* a section of program 1 (AVS3 video on VIDEO_PID), carried on PMT2_PID
PktPMT1B ==
    TSPacket(PMT2_PID, TRUE,
             PSIPayload(PMT_TABLE_ID, 0, 1,
                        PMTBody(VIDEO_PID, PMTEntry(STREAM_AVS3, VIDEO_PID, << >>))))

PSIPackets == {PktPAT12, PktPMT1, PktPMTB, PktPMT1B, PktSeq}

PSIScan == \E packet \in PSIPackets : ScanPacket(packet, MaxPackets)

NextPSI ==
    \/ StartParse
    \/ PSIScan
    \/ EndOfInput
    \/ Settle
    \/ Finish
    \/ ResetAnalyzer

SpecPSI == Init /\ [][NextPSI]_vars

(***************************************************************************)
(* C20: every PMT section that parsePSI hands to parsePMT on a PMT PID,    *)
(* a repeated one for an already populated program included, takes its PID *)
(* out of the unparsed-PMT set, and the all-PMTs-parsed flag is set when    *)
(* the PAT was parsed and that set is empty after it.                      *)
(***************************************************************************)
C20_EveryPmtOccurrenceCounts ==
    [][ ( /\ PacketStep
          /\ PmtSectionProgram(last') # -1
          /\ StepHeader.pid \in an.pmtPids )
        => ( /\ StepHeader.pid \notin an'.unparsedPmtPids
             /\ (an'.patParsed /\ an'.unparsedPmtPids = {}) => an'.allPmtsParsed )
      ]_vars

(***************************************************************************)
(* Sections on a PID that is neither PID 0 nor a PMT PID of the PAT.       *)
(***************************************************************************)
\* a section with table_id 0x00 announcing program 2, carried on VIDEO_PID
PktPATOnVideo ==
    TSPacket(VIDEO_PID, TRUE, PSIPayload(PAT_TABLE_ID, 0, 1, PATEntry(2, PMT2_PID)))

\* a PAT whose programs 1 and 2 have their PMT sections on the same PID
PktPATShared ==
    TSPacket(PAT_PID, TRUE,
             PSIPayload(PAT_TABLE_ID, 0, 1, PATEntry(1, PMT_PID) \o PATEntry(2, PMT_PID)))

\* the PAT of program 1, its PMT on its PMT PID, a PMT section of program 1 on
\* a PID the PAT does not name, a table_id 0x00 section on a video PID, a PES,
\* the PAT of two programs on one PMT PID
StrayPackets == {PktPAT, PktPMT1, PktPMT1B, PktPATOnVideo, PktSeq, PktPATShared}

StrayScan == \E packet \in StrayPackets : ScanPacket(packet, MaxPackets)

NextStray ==
    \/ StartParse
    \/ StrayScan
    \/ EndOfInput
    \/ Settle
    \/ Finish
    \/ ResetAnalyzer

SpecStray == Init /\ [][NextStray]_vars

\* the table_id parsePSI reads in a payload (-1 when it returns before)
SectionTableId(payload) ==
    IF Len(payload) < 1 THEN -1
    ELSE IF 1 + At(payload, 0) >= Len(payload) THEN -1
    ELSE At(payload, 1 + At(payload, 0))

\* the PSI state of the object: the programs, the stream map, what is known
\* of the PAT and of the PMT PIDs
PSIState(a) ==
    <<a.programs, a.streams, a.patParsed, a.pmtPids, a.unparsedPmtPids, a.allPmtsParsed>>

(***************************************************************************)
(* C21: a packet creates program records only if its PID is 0x0000, and    *)
(* stream-map or detection-set entries only if its PID is in the PMT-PID   *)
(* set at that time; a payload whose table_id is 0x00 or 0x02 on any other *)
(* PID leaves the PSI state as it was.                                     *)
(***************************************************************************)
C21_PSIOnlyOnItsPids ==
    [][ PacketStep =>
          /\ (DOMAIN an'.programs # DOMAIN an.programs) => StepHeader.pid = PAT_PID
          /\ ( \/ DOMAIN an'.streams \ DOMAIN an.streams # {}
               \/ an'.detectionPids \ an.detectionPids # {} )
                => StepHeader.pid \in an.pmtPids
          /\ ( /\ StepHeader.hasPayload
               /\ StepHeader.payloadUnitStartIndicator
               /\ StepHeader.pid # PAT_PID
               /\ StepHeader.pid \notin an.pmtPids
               /\ SectionTableId(StepPayload) \in {PAT_TABLE_ID, PMT_TABLE_ID} )
                => PSIState(an') = PSIState(an)
      ]_vars


(***************************************************************************)
(* C22: a parse started on an object that already completed a parse (or    *)
(* was just constructed or reset) begins with no PAT seen, no PMT PID      *)
(* known, an empty unparsed-PMT set and the all-PMTs-parsed flag cleared.  *)
(***************************************************************************)
C22_ParseStartsClean ==
    [][ (pc \in {"idle", "done"} /\ pc' = "scan")
          => ( /\ ~an'.patParsed
               /\ an'.pmtPids = {}
               /\ an'.unparsedPmtPids = {}
               /\ ~an'.allPmtsParsed )
      ]_vars

\* a PMT section was accepted for program n in this parse (parsePMT returned
\* true for it): the accepted sections of the model all carry a stream
PmtAccepted(a, n) == DOMAIN a.programs[n].streams # {}

(***************************************************************************)
(* C23: at every point of a TS parse, if the all-PMTs-parsed flag is set   *)
(* then the unparsed-PMT set is empty and a PMT section has been accepted  *)
(* for every program recorded from the PAT.                                *)
(***************************************************************************)
C23_FlagMeansAllParsed ==
    (pc # "idle" /\ an.allPmtsParsed)
        => ( /\ an.unparsedPmtPids = {}
             /\ \A n \in DOMAIN an.programs : PmtAccepted(an, n) )

(***************************************************************************)
(* Two programs that share an elementary stream: the PMT of program 2      *)
(* lists the video PID of program 1.                                       *)
(***************************************************************************)
\* packets scanned in one parse of the packets of the two programs
MaxSharedPackets == 5

\* program 2: AVS3 video on VIDEO_PID, the PID program 1 lists too
PktPMT2V ==
    TSPacket(PMT2_PID, TRUE,
             PSIPayload(PMT_TABLE_ID, 0, 2,
                        PMTBody(VIDEO_PID, PMTEntry(STREAM_AVS3, VIDEO_PID, << >>))))

SharedPackets == {PktPAT12, PktPMT1, PktPMT2V, PktSeq}

SharedScan == \E packet \in SharedPackets : ScanPacket(packet, MaxSharedPackets)

NextShared ==
    \/ StartParse
    \/ SharedScan
    \/ EndOfInput
    \/ Settle
    \/ Finish
    \/ ResetAnalyzer

SpecShared == Init /\ [][NextShared]_vars

(***************************************************************************)
(* C24: at every point of a TS parse, no PID is both in the detection set  *)
(* and in the stored detection results.                                    *)
(***************************************************************************)
C24_DetectedPidLeavesDetectionSet ==
    an.detectionPids \cap DOMAIN an.detectionResults = {}

MaxChunks == 2

\* readComplete: set where resolve() is called and where flush() is called
ReadComplete == mp4.resolved \/ mp4.flushed

\* the promise of analyzeFile is resolved or rejected
Settled == mp4.resolved \/ mp4.rejected

\* handleFile up to the first readNextChunk() of analyzeFile
AnalyzeFile(version, tracks, size, moovChunk, sampled) ==
    /\ mp4.phase = "idle"
    /\ mp4' = [mp4 EXCEPT !.phase = "reading", !.tracks = tracks,
                          !.pendingTracks = EmptyMap, !.receivedSamples = {},
                          !.resolved = FALSE, !.deliveries = << >>,
                          !.version = version, !.size = size,
                          !.moovChunk = moovChunk, !.sampled = sampled,
                          !.position = 0, !.reading = TRUE, !.readyDue = FALSE,
                          !.flushed = FALSE, !.rejected = FALSE]
    /\ UNCHANGED <<demuxVars, call>>

\* readNextChunk with data left, and reader.onload: appendBuffer, position +=
\* chunkSize, setTimeout(readNextChunk, 0)
ReadChunk ==
    /\ mp4.reading /\ ~mp4.readyDue
    /\ ~(ReadComplete \/ mp4.position >= mp4.size)
    /\ mp4' = [mp4 EXCEPT !.position = @ + 1,
                          !.readyDue = (mp4.position + 1 = mp4.moovChunk)]
    /\ UNCHANGED <<demuxVars, call>>

\* reader.onerror: reject(reader.error), and no further readNextChunk
ReaderError ==
    /\ mp4.reading /\ ~mp4.readyDue
    /\ ~(ReadComplete \/ mp4.position >= mp4.size)
    /\ mp4' = [mp4 EXCEPT !.rejected = TRUE, !.reading = FALSE]
    /\ UNCHANGED <<demuxVars, call>>

\* mp4boxFile.onError, raised by MP4Box while it parses an appended chunk
OnError ==
    /\ mp4.reading /\ mp4.position > 0
    /\ mp4' = [mp4 EXCEPT !.rejected = TRUE]
    /\ UNCHANGED <<demuxVars, call>>

\* readNextChunk when readComplete || position >= file.size: flush() unless
\* readComplete; the first version then calls resolve() when no target track
\* is pending
ReadEnd ==
    /\ mp4.reading /\ ~mp4.readyDue
    /\ ReadComplete \/ mp4.position >= mp4.size
    /\ mp4' = [mp4 EXCEPT
                !.reading = FALSE,
                !.flushed = IF ReadComplete THEN @ ELSE TRUE,
                !.resolved = IF /\ ~ReadComplete
                                /\ mp4.version = 1
                                /\ DOMAIN mp4.pendingTracks = {}
                             THEN TRUE ELSE @]
    /\ UNCHANGED <<demuxVars, call>>

\* MP4Box calls onReady inside the appendBuffer that completed the moov box
ReadyFires ==
    /\ mp4.readyDue
    /\ OnReady

\* MP4Box calls onSamples with the sample of a track that has one, once
\* extraction has started (nbSamples: 1)
SampleArrives ==
    \E track_id \in mp4.sampled :
        /\ \A i \in 1..Len(mp4.deliveries) : mp4.deliveries[i].track_id # track_id
        /\ OnSamples(track_id, <<track_id>>)

\* the re-upload button, shown with the results or the error
ReUpload ==
    /\ Settled /\ ~mp4.reading
    /\ ResetState

AnalyzeFiles ==
    \E version \in {1, 2} : \E n \in 1..MaxTracks : \E first \in 1..Len(CodecStrings) :
        \E size \in 1..MaxChunks : \E moovChunk \in 0..size :
            \E sampled \in SUBSET (1..n) :
                AnalyzeFile(version, BMFFFile(n, first), size, moovChunk, sampled)

NextBMFFRead ==
    \/ AnalyzeFiles
    \/ ReadChunk
    \/ ReaderError
    \/ OnError
    \/ ReadEnd
    \/ ReadyFires
    \/ SampleArrives
    \/ ReUpload

\* every enabled callback is eventually run
SpecBMFFRead == Init /\ [][NextBMFFRead]_vars /\ WF_vars(NextBMFFRead)

(***************************************************************************)
(* C26: every BMFF analysis eventually settles: once the whole file has    *)
(* been appended and flushed, the analyzeFile promise is resolved or       *)
(* rejected, also when onReady never fires or a matching track never       *)
(* delivers a sample.                                                      *)
(***************************************************************************)
C26_AnalysisSettles == mp4.flushed ~> Settled

(***************************************************************************)
(* parseTS in fast-scan mode (isPartialParse): handleFile reads the first   *)
(* 22000 packets of a file larger than that and parses them with the       *)
(* packet budget.  The files explored carry a PAT and a PMT section at any *)
(* place, once each, among packets without payload.                        *)
(***************************************************************************)
\* the packet budget of the fast scan
FAST_SCAN_BUDGET == 20000
\* the packets handleFile reads of a large file
PARTIAL_PACKETS == 22000

NULL_PID == 8191
\* a packet that carries an adaptation field only
PktNull == <<SYNC_BYTE, NULL_PID \div 256, NULL_PID % 256, 32>>

\* if (isPartialParse && processedPackets > 20000)
\*     if (this.programs.size > 0 && this.streams.size > 0) break;
BudgetReached(a, n) ==
    n > FAST_SCAN_BUDGET /\ DOMAIN a.programs # {} /\ DOMAIN a.streams # {}

\* one iteration of the packet loop of parseTS(data, true)
FastScanPacket(packet) ==
    /\ pc = "scan"
    /\ processedPackets < PARTIAL_PACKETS
    /\ At(packet, 0) = SYNC_BYTE
    /\ LET header == ParseTSHeader(packet)
           r == ParsePacket(an, packet)
       IN  /\ an' = r.an
           /\ sent' = IF header.hasPayload
                      THEN Logged(sent, header.pid,
                                  [ pusi |-> header.payloadUnitStartIndicator,
                                    payload |-> SliceFrom(packet, header.payloadStart),
                                    under |-> UnderReassembly(header.pid) ])
                      ELSE sent
           /\ offered' = Extended(offered, header.pid, r.offered)
           /\ lastRuns' = MapSet(EmptyMap, header.pid,
                                 [ran |-> r.ran, list |-> r.list, offered |-> r.offered])
           /\ IF BudgetReached(r.an, processedPackets + 1)
              THEN pc' = "wait" /\ exitReason' = "budget"
              ELSE IF EarlyExit(r.an)
              THEN pc' = "wait" /\ exitReason' = "early"
              ELSE pc' = "scan" /\ exitReason' = exitReason
    /\ processedPackets' = processedPackets + 1
    /\ last' = packet
    /\ UNCHANGED besideDemux

\* a packet without payload
FastScanNull == FastScanPacket(PktNull)

\* the PAT or the PMT section of the file
FastScanPSI ==
    \E packet \in {PktPAT, PktPMT1} :
        /\ ParseTSHeader(packet).pid \notin DOMAIN sent
        /\ FastScanPacket(packet)

\* handleFile on a large file, on a new page
FastStart == pc = "idle" /\ StartParse

\* the 22000 packets read are exhausted
FastEndOfInput == processedPackets = PARTIAL_PACKETS /\ EndOfInput

NextFast ==
    \/ FastStart
    \/ FastScanNull
    \/ FastScanPSI
    \/ FastEndOfInput
    \/ Settle
    \/ Finish

SpecFast == Init /\ [][NextFast]_vars

\* at least one program and one stream are known
ProgramAndStreamKnown(a) == DOMAIN a.programs # {} /\ DOMAIN a.streams # {}

(***************************************************************************)
(* C27: in fast-scan (partial) mode, once at least one program and one     *)
(* stream are known, the scan parses no more than 20000 TS packets: a      *)
(* packet parsed while a program and a stream are known is one of the      *)
(* first 20000 of the scan.                                                *)
(***************************************************************************)
C27_BudgetBoundsScan ==
    [][ (PacketStep /\ ProgramAndStreamKnown(an))
            => processedPackets' <= FAST_SCAN_BUDGET ]_vars

(***************************************************************************)
(* analyze() of the video analyzers on streams that hold sequence headers  *)
(* whose parse fails: by a marker bit of 0, or by the end of the data      *)
(* (a header cut short).                                                   *)
(***************************************************************************)
\* the bytes kept of a sequence header unit that is cut short
TruncatedBytes == 10

\* the units of the streams: a valid sequence header, one whose first marker
\* bit is 0, one cut short
RetryKinds == {"header", "broken", "truncated"}

RetryUnitOf(standard, kind) ==
    IF kind = "truncated"
    THEN SubSeq(UnitOf(standard, "header"), 1, TruncatedBytes)
    ELSE UnitOf(standard, kind)

RECURSIVE RetryStreamOf(_, _)
RetryStreamOf(standard, kinds) ==
    IF kinds = << >> THEN << >>
    ELSE RetryUnitOf(standard, Head(kinds)) \o RetryStreamOf(standard, Tail(kinds))

\* the byte offset of unit i (1 = first) in RetryStreamOf(standard, kinds)
RetryOffset(standard, kinds, i) == Len(RetryStreamOf(standard, SubSeq(kinds, 1, i - 1)))

\* analyze() on a stream of units; `parsed` tells, for each unit, whether
\* parseSequenceHeader succeeds on a reader placed at the unit
AnalyzeRetry(standard, kinds) ==
    /\ call = NoCall
    /\ LET data == RetryStreamOf(standard, kinds)
       IN  call' = [ op |-> "retry",
                     input |-> [ standard |-> standard, data |-> data, kinds |-> kinds ],
                     output |-> [ parsed |-> [i \in 1..Len(kinds) |->
                                      ParseSequenceHeaderOf(standard,
                                          BitReader(data, RetryOffset(standard, kinds, i))).ok],
                                  record |-> AnalyzeOf(standard, data) ] ]
    /\ UNCHANGED <<demuxVars, mp4>>

AnalyzeRetries ==
    \E standard \in VideoStandards : \E n \in 1..MaxUnits :
        \E kinds \in [1..n -> RetryKinds] : AnalyzeRetry(standard, kinds)

NextRetry == AnalyzeRetries

SpecRetry == Init /\ [][NextRetry]_vars

\* the last element of a non-empty set of numbers
MaxOf(S) == CHOOSE i \in S : \A j \in S : j <= i

(***************************************************************************)
(* C28: when parsing a sequence header fails (a marker bit is 0 or the     *)
(* data is truncated), no partial record from that attempt is emitted and  *)
(* the scan goes on to the next start code, so a later valid sequence      *)
(* header in the same buffer is still captured: on a stream that holds a   *)
(* header whose parse fails, the record returned is the one of the last    *)
(* header of the stream whose parse succeeds, taken at that header's       *)
(* offset, and no record is returned when there is none.                   *)
(***************************************************************************)
C28_FailedHeaderSkipped ==
    (call.op = "retry"
        /\ \E i \in 1..Len(call.input.kinds) : ~call.output.parsed[i])
        => LET kinds == call.input.kinds
               good == {i \in 1..Len(kinds) : call.output.parsed[i]}
           IN  IF good = {} THEN ~call.output.record.present
               ELSE /\ call.output.record.present
                    /\ call.output.record.sequenceHeader
                         = Captured(RetryOffset(call.input.standard, kinds, MaxOf(good)),
                                    ParseSequenceHeaderOf(call.input.standard,
                                        BitReader(call.input.data,
                                            RetryOffset(call.input.standard, kinds, MaxOf(good)))))

\* a stream whose first sequence header fails on a marker bit and whose second
\* is cut short, followed by a valid header, which is the one returned
C28_Witness ==
    /\ call.op = "retry"
    /\ call.input.kinds = <<"broken", "truncated", "header">>
    /\ call.output.parsed = <<FALSE, FALSE, TRUE>>
    /\ call.output.record.present
    /\ call.output.record.sequenceHeader.at
           = RetryOffset(call.input.standard, call.input.kinds, 3)

(***************************************************************************)
(* The validation of the colour codes of the sequence display extension:   *)
(* validateColorPrimaries / validateTransferCharacteristics /             *)
(* validateMatrixCoefficients of AVS1Analyzer (src/unnamed/part_004) and   *)
(* AVS2Analyzer (src/unnamed/part_003), and getColorPrimaries /            *)
(* getTransferCharacteristics / getMatrixCoefficients of AVS3Utils          *)
(* (src/utils.ts).  A code is the 8-bit number read from the stream; the   *)
(* result is a member of the enum, the raw number, or null.                *)
(***************************************************************************)
ColourFields == {"colour_primaries", "transfer_characteristics", "matrix_coefficients"}

\* the codes of an 8-bit field
ColourCodes == 0..255

\* null
NULL_COLOUR == -1
\* ColorPrimaries.RESERVED, TransferCharacteristics.RESERVED and
\* MatrixCoefficients.RESERVED
RESERVED_COLOUR == 3

\* the last valid code of each field in AVS1Analyzer
AVS1_LastValid(field) ==
    IF field = "colour_primaries" THEN 8
    ELSE IF field = "transfer_characteristics" THEN 10
    ELSE 7

AVS1_ValidateColour(field, value) ==
    IF value = 0 THEN NULL_COLOUR
    ELSE IF value >= 1 /\ value <= AVS1_LastValid(field) THEN value
    ELSE RESERVED_COLOUR

AVS2_ValidateColour(field, value) ==
    IF value = 0 THEN NULL_COLOUR ELSE value

AVS3_ValidateColour(field, value) ==
    IF value = 0 THEN NULL_COLOUR
    ELSE IF field = "transfer_characteristics" /\ value = 13 THEN RESERVED_COLOUR
    ELSE IF field = "matrix_coefficients" /\ value > 9 THEN RESERVED_COLOUR
    ELSE value

ValidateColourOf(standard, field, value) ==
    IF standard = "AVS1" THEN AVS1_ValidateColour(field, value)
    ELSE IF standard = "AVS2" THEN AVS2_ValidateColour(field, value)
    ELSE AVS3_ValidateColour(field, value)

\* the largest code of each shared enum (ColorPrimaries.BT2020,
\* TransferCharacteristics.HLG, MatrixCoefficients.AVS2_APPENDIX_G3)
LastEnumCode(field) ==
    IF field = "colour_primaries" THEN 9
    ELSE IF field = "transfer_characteristics" THEN 14
    ELSE 11

\* the valid range of a codec's field: the one AVS1Analyzer tests; for AVS2
\* and AVS3, no larger than the codes the shared enum names
LastValidCode(standard, field) ==
    IF standard = "AVS1" THEN AVS1_LastValid(field) ELSE LastEnumCode(field)

ValidateColour(standard, field, value) ==
    /\ call = NoCall
    /\ call' = [ op |-> "colour",
                 input |-> [ standard |-> standard, field |-> field, value |-> value ],
                 output |-> ValidateColourOf(standard, field, value) ]
    /\ UNCHANGED <<demuxVars, mp4>>

ValidateColours ==
    \E standard \in VideoStandards : \E field \in ColourFields :
        \E value \in ColourCodes : ValidateColour(standard, field, value)

NextColour == ValidateColours

SpecColour == Init /\ [][NextColour]_vars

(***************************************************************************)
(* C29: in every video parser (AVS1, AVS2, AVS3), a colour_primaries,      *)
(* transfer_characteristics or matrix_coefficients code of 0 is reported   *)
(* as absent, and a non-zero code outside that codec's valid range is      *)
(* reported as RESERVED, never as the raw out-of-range number.             *)
(***************************************************************************)
C29_ColourCodesNormalised ==
    call.op = "colour"
        => /\ call.input.value = 0 => call.output = NULL_COLOUR
           /\ call.input.value > LastValidCode(call.input.standard, call.input.field)
                  => call.output = RESERVED_COLOUR

(***************************************************************************)
(* AVS3Analyzer.analyze on sequence headers that differ in their tool      *)
(* flags: the sample header of a profile, with some of its one-bit flags   *)
(* written as 0.                                                           *)
(***************************************************************************)
\* main 8 bit, main 10 bit, high 8 bit, high 10 bit
AVS3_ToolProfiles == {32, 34, 48, 50}

\* the flags varied; esao_enable_flag and ccsao_enable_flag are read for the
\* profiles 0x30 and 0x32 only
ToolFlagsOf(profile_id) ==
    {"sao_enable_flag", "smvd_enable_flag", "ipcm_enable_flag"}
        \cup (IF profile_id \in {48, 50}
              THEN {"esao_enable_flag", "ccsao_enable_flag"} ELSE {})

\* the place of a flag in AVS3_HeaderElements(profile_id, _, 0)
ToolFlagIndex(profile_id, flag) ==
    (IF profile_id \in {34, 50} THEN 13 ELSE 12)
        + (IF flag = "sao_enable_flag" THEN 33
           ELSE IF flag = "smvd_enable_flag" THEN 36
           ELSE IF flag = "ipcm_enable_flag" THEN 37
           ELSE IF flag = "esao_enable_flag" THEN 62
           ELSE 63)

\* the elements with element i written as a one-bit 0
WithZeroAt(elements, i) ==
    SubSeq(elements, 1, i - 1) \o << FU(1, 0) >> \o SubSeq(elements, i + 1, Len(elements))

RECURSIVE WithZeroFlags(_, _, _)
WithZeroFlags(elements, profile_id, zero) ==
    IF zero = {} THEN elements
    ELSE LET flag == CHOOSE f \in zero : TRUE
         IN  WithZeroFlags(WithZeroAt(elements, ToolFlagIndex(profile_id, flag)),
                           profile_id, zero \ {flag})

\* the sample header with the flags of `zero` written as 0
AVS3_ToolHeaderElements(profile_id, low_delay, zero) ==
    WithZeroFlags(AVS3_HeaderElements(profile_id, low_delay, 0), profile_id, zero)

\* analyze() on a stream that is one such header followed by a picture header
AnalyzeTools(profile_id, low_delay, zero) ==
    /\ call = NoCall
    /\ LET data == HeaderUnit(AVS3_ToolHeaderElements(profile_id, low_delay, zero), 0)
                       \o PictureUnit
       IN  call' = [ op |-> "tools",
                     input |-> [ profile_id |-> profile_id, low_delay |-> low_delay,
                                 zero |-> zero, data |-> data ],
                     output |-> [ record |-> AVS3_Analyze(data) ] ]
    /\ UNCHANGED <<demuxVars, mp4>>

AnalyzeToolHeaders ==
    \E profile_id \in AVS3_ToolProfiles : \E low_delay \in {0, 1} :
        \E zero \in SUBSET ToolFlagsOf(profile_id) :
            AnalyzeTools(profile_id, low_delay, zero)

NextTools == AnalyzeToolHeaders

SpecTools == Init /\ [][NextTools]_vars

\* a field of the record analyze() returned
Reported(name) == Get(call.output.record.sequenceHeader, name)

(***************************************************************************)
(* C30: in an AVS3 sequence header with profile_id 0x30 or 0x32, if         *)
(* esao_enable_flag is 1 then the reported sao_enable_flag is false,       *)
(* whatever bit was read for it.                                           *)
(***************************************************************************)
C30_EsaoClearsSao ==
    (call.op = "tools" /\ call.output.record.present
        /\ Reported("profile_id") \in {48, 50}
        /\ Reported("esao_enable_flag") = 1)
        => Reported("sao_enable_flag") = 0
=============================================================================
